---- MODULE Spec2Model ----
(***************************************************************************)
(* Model of the glyph manager and atlas packer of gllabel                  *)
(* (src/lib/gllabel.cpp) and of the grid cell encoder (src/GridGlyph.cpp). *)
(*                                                                         *)
(* Also the VGrid builder (src/GridGlyph.cpp) with the intersection solver *)
(* (src/types.cpp), the outline decomposer (src/lib/outline.cpp), the      *)
(* control flow of cubic2quad (src/lib/cubic2quad.cpp), the curve writer   *)
(* write_bezier_to_buffer and the text label GLLabel (src/lib/gllabel.cpp, *)
(* src/label.hpp).                                                         *)
(*                                                                         *)
(* Nine specifications:                                                    *)
(*   Spec      the font manager: GetGlyphForCodepoint, LoadASCII and       *)
(*             UploadAtlases called in any order;                          *)
(*   SpecCell  VGridAtlas::WriteVGridCellAt applied to one cell whose      *)
(*             curve set and mid-inside flag are drawn from bounded sets;  *)
(*   SpecGrid  the GridGlyph constructor, then WriteVGridAt, for a glyph   *)
(*             drawn from a set of small glyphs;                           *)
(*   SpecOutline  GetBeziersForOutline on an outline drawn from a set of   *)
(*             small contours, one decompose callback a step;              *)
(*   SpecC2Q   cubic2quad, one iteration of the segment loop a step;       *)
(*   SpecClose is_segment_approximation_close on one sub-segment, one      *)
(*             sample of the loop a step;                                  *)
(*   SpecCubic the two cubic callbacks, of GetCurvesForOutline and of      *)
(*             GetBeziersForOutline, on a bounding box from a bounded set; *)
(*   SpecWriter  write_bezier_to_buffer on one curve and glyph size;       *)
(*   SpecLabel a GLLabel: InsertText, RemoveText, SetText, AppendText,     *)
(*             SetCaretPosition, ShowCaret and Render called in any order. *)
(*                                                                         *)
(* The two byte buffers of an atlas group are 256 KiB each.  They are kept *)
(* as the ordered list of the writes made into them: a pixel (or a grid    *)
(* texel) holds what the last write covering it put there, and what a      *)
(* write puts is a function of the glyph written (the font is fixed).      *)
(***************************************************************************)
EXTENDS Integers, Sequences, FiniteSets, TLC

VARIABLES
    atlases,      \* GLFontManager::atlases, the vector of AtlasGroup
    glyphs,       \* GLFontManager::glyphs, (face, codepoint) -> Glyph
    ret,          \* value returned by the last GetGlyphForCodepoint
    last,         \* the last operation called and its arguments
    returned,     \* (face, codepoint) -> value its first call returned
    halted,       \* the process has aborted (assert) or crashed
    faults,       \* the memory faults that have happened
    ncalls,       \* number of manager calls made
    cellBeziers,  \* GridGlyph::cellBeziers[cellIdx] of the cell being written
    cellMids,     \* GridGlyph::cellMids[cellIdx] of the cell being written
    data,         \* the atlas texel, kAtlasChannels bytes
    pc,           \* position of the cell writer or of the grid builder
    args,         \* the arguments of the GridGlyph constructor: beziers,
                  \* glyphSize <<w, h>>, gridWidth, gridHeight
    gridGlyph,    \* the GridGlyph constructed
    rounding,     \* the side float put the rounded roots on in this run
    vgrid,        \* the texels WriteVGridAt wrote, one for each cell
    outline,      \* the FT_Outline given to GetBeziersForOutline
    curves,       \* DecomposeState::curves, then the vector returned
    prev,         \* DecomposeState::prev
    emitted,      \* number of outline segments FT_Outline_Decompose has emitted
    lineEdges,    \* the indices of curves pushed by decompose_line_to
    numInflections, \* cubic_to_quad: the count solve_inflections returned
    inflectionIdx,  \* cubic_to_quad: sub-cubics converted so far
    nq,           \* cubic_to_quad: quadratics returned for them
    segmentsCount,  \* _cubic_to_quad: the loop variable
    iterations,   \* loop iterations made for the current sub-cubic
    out,          \* the doubles of the output buffer written so far
    c2qReturn,    \* the value cubic2quad returned
    approximation,  \* _cubic_to_quad: segments of the candidate now held
                  \* in approximation[], 0 before the first
    concaveAt1,   \* _cubic_to_quad: the concavity check failed at 1 segment
    closeCalls,   \* _cubic_to_quad: segments -> what
                  \* _is_approximation_close returned for that candidate
    subReturn,    \* what the last _cubic_to_quad returned and had found
    far,          \* is_segment_approximation_close: the i in 1..9 whose
                  \* point tmin + i dt is farther than errorBound
    ninthBelow,   \* the float sum tmin + 9 dt compares below tmax - dt
    sample,       \* the loop variable t, as the i of t = tmin + i dt
    sampled,      \* the i whose distance was tested
    segmentClose, \* the value is_segment_approximation_close returned
    cbox,         \* <<width, height>> of the outline's bounding box
    caller,       \* the decomposer whose cubic callback ran
    errorBound,   \* the error bound handed to cubic2quad
    bezierIn,     \* write_bezier_to_buffer: *bezier
    sizeIn,       \* write_bezier_to_buffer: *glyphSize, <<w, h>>
    conversion,   \* what the build does with a float outside uint16_t
    buffer,       \* write_bezier_to_buffer: buffer[0..5]
    text,         \* GLLabel::text
    labelGlyphs,  \* GLLabel::glyphs
    verts,        \* GLLabel::verts
    caretPosition,  \* GLLabel::caretPosition
    showingCaret, \* GLLabel::showingCaret
    boundAtlas,   \* the atlas group whose textures are bound
    drawn,        \* the group each glyph of the last Render was drawn with
    labelFaults,  \* the undefined accesses the label has made
    labelLast,    \* the last label operation called and its arguments
    nops          \* number of label calls made

mgrVars == <<atlases, glyphs, ret, last, returned, halted, faults, ncalls>>
cellVars == <<cellBeziers, cellMids, data, pc>>
texelVars == <<cellBeziers, cellMids, data>>
gridVars == <<args, gridGlyph, rounding, vgrid>>
decomposeVars == <<outline, curves, prev, emitted, lineEdges>>
c2qVars == <<numInflections, inflectionIdx, nq, segmentsCount, iterations,
             out, c2qReturn, approximation, concaveAt1, closeCalls,
             subReturn>>
closeVars == <<far, ninthBelow, sample, sampled, segmentClose>>
cubicVars == <<cbox, caller, errorBound>>
writerVars == <<bezierIn, sizeIn, conversion, buffer>>
labelVars == <<text, labelGlyphs, verts, caretPosition, showingCaret,
               boundAtlas, drawn, labelFaults, labelLast, nops>>
otherVars == <<closeVars, cubicVars, writerVars, labelVars>>
coreVars == <<mgrVars, texelVars, gridVars, decomposeVars, c2qVars>>
vars == <<atlases, glyphs, ret, last, returned, halted, faults, ncalls,
          cellBeziers, cellMids, data, pc,
          args, gridGlyph, rounding, vgrid,
          outline, curves, prev, emitted, lineEdges,
          numInflections, inflectionIdx, nq, segmentsCount, iterations,
          out, c2qReturn, approximation, concaveAt1, closeCalls, subReturn,
          far, ninthBelow, sample, sampled, segmentClose,
          cbox, caller, errorBound,
          bezierIn, sizeIn, conversion, buffer,
          text, labelGlyphs, verts, caretPosition, showingCaret,
          boundAtlas, drawn, labelFaults, labelLast, nops>>

----------------------------------------------------------------------------
(* Program constants, src/lib/gllabel.cpp:38-41 and src/GridGlyph.cpp:149-151 *)

kGridMaxSize == 20
kGridAtlasSize == 256
kBezierAtlasSize == 256
kAtlasChannels == 4
kBezierIndexUnused == 0
kBezierIndexSortMeta == 1
kBezierIndexFirstReal == 2

sq(x) == x * x

(* Bounds of the model *)
MaxCalls == 3      \* manager calls in one behaviour
MaxIdx == 3        \* the small curve indices offered to a cell are 0..MaxIdx
MaxCellSet == 5    \* largest curve set offered to a cell

Min(a, b) == IF a <= b THEN a ELSE b

----------------------------------------------------------------------------
(* The cell encoder, src/GridGlyph.cpp:176-237                             *)

(* Conversion to uint8_t *)
U8(n) == n % 256

(* Iteration order of std::set<size_t>: ascending *)
RECURSIVE SetToSortedSeq(_)
SetToSortedSeq(S) ==
    IF S = {} THEN <<>>
    ELSE LET lo == CHOOSE x \in S : \A y \in S : x <= y
         IN <<lo>> \o SetToSortedSeq(S \ {lo})

(* The index is cast to uint8_t, kBezierIndexFirstReal is added and the    *)
(* sum is stored into the uint8_t data[i]                                  *)
EncodeIndex_Bias1(idx) == U8(U8(idx) + kBezierIndexSortMeta)

EncodeIndex(idx) == U8(U8(idx) + kBezierIndexFirstReal)

(* Lines 187-206: the texel is cleared, then the first nbeziers indices of *)
(* the set are written in ascending order                                  *)
WriteIndices(beziers, depth) ==
    LET sorted == SetToSortedSeq(beziers)
        nbeziers == Min(Cardinality(beziers), depth)
    IN  [i \in 1..depth |->
           IF i <= nbeziers THEN EncodeIndex(sorted[i])
           ELSE kBezierIndexUnused]

(* Lines 208-236: the mid-inside flag is stored in the order of data[0]    *)
(* and data[1]; size is beziers->size()                                    *)
OrderForMidInside_SwapOnly(written, size, midInside) ==
    IF midInside /\ size >= 2
    THEN [written EXCEPT ![1] = written[2], ![2] = written[1]]
    ELSE written

OrderForMidInside(written, size, midInside) ==
    IF midInside
    THEN IF size = 0
         THEN [written EXCEPT ![1] = kBezierIndexSortMeta]
         ELSE IF size # 1
              THEN [written EXCEPT ![1] = written[2], ![2] = written[1]]
              ELSE written
    ELSE IF size = 1
         THEN [written EXCEPT ![2] = written[1], ![1] = kBezierIndexUnused]
         ELSE written

(* The texel after WriteVGridCellAt; beziers is the cell's set, midInside  *)
(* its flag, depth the bytes per texel.                                    *)
WriteVGridCellAt_Unordered(beziers, midInside, depth) ==
    WriteIndices(beziers, depth)

WriteVGridCellAt(beziers, midInside, depth) ==
    OrderForMidInside(WriteIndices(beziers, depth),
                      Cardinality(beziers), midInside)

(* The shader's recovery of the flag, src/lib/gllabel.cpp:1004-1008 *)
ShaderMidInside(texel) == texel[1] > texel[2]

(* Curve indices offered to a cell: small ones and the ones around the     *)
(* 254-curve limit of the one-byte encoding                                *)
IndexPool == (0..MaxIdx) \cup {253, 254, 255}

CellSets == {S \in SUBSET IndexPool : Cardinality(S) <= MaxCellSet}

WriteCell ==
    /\ pc = "write"
    /\ data' = WriteVGridCellAt(cellBeziers, cellMids, kAtlasChannels)
    /\ pc' = "written"
    /\ UNCHANGED <<cellBeziers, cellMids>>
    /\ UNCHANGED mgrVars
    /\ UNCHANGED gridVars
    /\ UNCHANGED decomposeVars
    /\ UNCHANGED c2qVars
    /\ UNCHANGED otherVars

----------------------------------------------------------------------------
(* The font manager                                                        *)

nullptr == <<>>

(* The external font engine (FreeType), a fixed table.  Faces are 1 and 2, *)
(* 0 is the null FT_Face.  Code point 200 is one FT_Load_Glyph fails on,   *)
(* 201 has an outline of 40000 curves, 202 one of 21840 curves, 32 (space) *)
(* has an empty outline; every other code point has a small outline.       *)
Faces == {1, 2}
Points == {65, 200, 201, 202}

FT_Load_Glyph_Fails(face, point) == point = 200

(* curves.size() of GetCurvesForOutline(&face->glyph->outline) *)
FontCurves(face, point) ==
    CASE point = 32 -> 0
      [] point = 201 -> 40000
      [] point = 202 -> 21840
      [] OTHER -> 3 + ((point + face) % 5)

(* face->glyph->metrics after FT_Load_Glyph with FT_LOAD_NO_SCALE *)
FontMetrics(face, point) ==
    IF point = 32
    THEN [width |-> 0, height |-> 0, horiBearingX |-> 0,
          horiBearingY |-> 0, horiAdvance |-> 500 + face]
    ELSE [width |-> 400 + point, height |-> 1400 + face,
          horiBearingX |-> 10 * face, horiBearingY |-> 1300,
          horiAdvance |-> 450 + point]

(* AtlasGroup group{} with its two zero-filled buffers, lines 359-362.     *)
(* glyphDataBuf and gridAtlas are the lists of the writes made.  The       *)
(* struct is declared in gllabel.hpp; glyphDataBufOffset is taken to be    *)
(* wide enough for kBezierAtlasSize^2 (no wrap at 65536).                  *)
NewAtlasGroup ==
    [glyphDataBuf |-> <<>>, gridAtlas |-> <<>>, glyphDataBufOffset |-> 0,
     nextGridPos |-> <<0, 0>>, full |-> FALSE, uploaded |-> TRUE]

(* Lines 356-384.  The group returned is the last one of the result. *)
GetOpenAtlasGroup_Always(as) == Append(as, NewAtlasGroup)

GetOpenAtlasGroup(as) ==
    IF Len(as) = 0 \/ as[Len(as)].full
    THEN Append(as, NewAtlasGroup)
    ELSE as

(* uint16_t bezierPixelLength = 2 + curves.size()*3, line 632 *)
BezierPixelLength(ncurves) == (2 + ncurves * 3) % 65536

(* Line 634 *)
TooManyCurves(bezierPixelLength) == bezierPixelLength > sq(kBezierAtlasSize)

(* Pixels write_glyph_data_to_buffer writes: 2 of header, 3 per curve *)
RecordLength(nbeziers) == 2 + 3 * nbeziers

(* Lines 652-657: the data cursor check *)
DataCursorCheck(as, bezierPixelLength) ==
    LET n == Len(as)
    IN  IF as[n].glyphDataBufOffset + bezierPixelLength > sq(kBezierAtlasSize)
        THEN GetOpenAtlasGroup(
                 [as EXCEPT ![n].full = TRUE, ![n].uploaded = FALSE])
        ELSE as

(* Line 663: the test that closes a group whose grid rows are used up *)
GridRowsExhausted(gy) == gy >= kGridAtlasSize

(* Lines 659-668: the grid cursor check *)
GridCursorCheck(as) ==
    LET n == Len(as)
    IN  IF as[n].nextGridPos[1] + kGridMaxSize > kGridAtlasSize
        THEN LET moved == [as EXCEPT ![n].nextGridPos =
                               <<0, as[n].nextGridPos[2] + kGridMaxSize>>]
             IN  IF GridRowsExhausted(moved[n].nextGridPos[2])
                 THEN GetOpenAtlasGroup(
                          [moved EXCEPT ![n].full = TRUE,
                                        ![n].uploaded = FALSE])
                 ELSE moved
        ELSE as

(* The two asserts of VGridAtlas::WriteVGridAt, src/GridGlyph.cpp:161-162 *)
TileInsideAtlas(atX, atY, width, height) ==
    /\ atX + width <= kGridAtlasSize
    /\ atY + height <= kGridAtlasSize

(* Lines 641-649: the record of a glyph without atlas data *)
EmptyGlyph(face, point) ==
    LET m == FontMetrics(face, point)
    IN  [size |-> <<m.width, m.height>>,
         offset |-> <<m.horiBearingX, m.horiBearingY - m.height>>,
         bezierAtlasPos |-> <<0, -1>>,
         advance |-> m.horiAdvance]

(* Lines 690-698 *)
PlacedGlyph(face, point, dataOffset, groupIndex) ==
    LET m == FontMetrics(face, point)
    IN  [size |-> <<m.width, m.height>>,
         offset |-> <<m.horiBearingX, m.horiBearingY - m.height>>,
         bezierAtlasPos |-> <<dataOffset, groupIndex>>,
         advance |-> m.horiAdvance]

(* Lines 602-608: the cache lookup *)
CacheHit_Never(cache, face, point) == FALSE

CacheHit(cache, face, point) == <<face, point>> \in DOMAIN cache

(* Records the value the first call for a key returned *)
Remember(st, key) ==
    IF key \in DOMAIN st.returned THEN st
    ELSE [st EXCEPT !.returned = (key :> st.ret) @@ st.returned]

(* Lines 652-707: placing a glyph with curves.  A write past the end of a  *)
(* buffer is undefined behaviour and a failing assert aborts: with crash   *)
(* the process stops there, without it the write lands outside the buffer  *)
(* and the call goes on.                                                   *)
PlaceGlyph(st, as0, face, point, crash) ==
    LET key == <<face, point>>
        ncurves == FontCurves(face, point)
        bpl == BezierPixelLength(ncurves)
        as == GridCursorCheck(DataCursorCheck(as0, bpl))
        n == Len(as)
        off == as[n].glyphDataBufOffset
        gx == as[n].nextGridPos[1]
        gy == as[n].nextGridPos[2]
        dataOverflow == off + RecordLength(ncurves) > sq(kBezierAtlasSize)
        assertFails == ~TileInsideAtlas(gx, gy, kGridMaxSize, kGridMaxSize)
        record == [at |-> off, nbeziers |-> ncurves,
                   grid |-> <<gx, gy, kGridMaxSize, kGridMaxSize>>,
                   key |-> key]
        tile == [atX |-> gx, atY |-> gy, width |-> kGridMaxSize,
                 height |-> kGridMaxSize, key |-> key]
        asData == [as EXCEPT ![n].glyphDataBuf = Append(@, record)]
        asGrid == [asData EXCEPT ![n].gridAtlas = Append(@, tile)]
        glyph == PlacedGlyph(face, point, off, n - 1)
        f1 == IF dataOverflow THEN {"glyph_data_overflow"} ELSE {}
        f2 == IF assertFails THEN {"grid_atlas_overflow"} ELSE {}
    IN  IF dataOverflow /\ crash
        THEN [st EXCEPT !.atlases = as, !.halted = TRUE,
                        !.faults = @ \cup f1, !.exit = "crashed"]
        ELSE IF assertFails /\ crash
        THEN [st EXCEPT !.atlases = asData, !.halted = TRUE,
                        !.faults = @ \cup f1 \cup f2, !.exit = "crashed"]
        ELSE Remember(
               [st EXCEPT
                  !.atlases = [asGrid EXCEPT
                      ![n].glyphDataBufOffset = @ + bpl,
                      ![n].nextGridPos = <<gx + kGridMaxSize, gy>>,
                      ![n].uploaded = FALSE],
                  !.glyphs = (key :> glyph) @@ st.glyphs,
                  !.ret = <<glyph>>,
                  !.faults = @ \cup f1 \cup f2,
                  !.exit = "placed"], key)

(* GLFontManager::GetGlyphForCodepoint, lines 600-708.  st holds the       *)
(* manager's state, the result is the state after the call, with the       *)
(* returned pointer's target in ret (nullptr for a null pointer) and the   *)
(* return statement taken in exit: "cached" line 606, "load_failed" line   *)
(* 617, "empty" line 649, "placed" line 707.                               *)
GetGlyphForCodepoint(st, face, point, crash) ==
    LET key == <<face, point>>
    IN  IF CacheHit(st.glyphs, face, point)
        THEN Remember([st EXCEPT !.ret = <<st.glyphs[key]>>,
                                 !.exit = "cached"], key)
        ELSE LET as == GetOpenAtlasGroup(st.atlases)
                 ncurves == FontCurves(face, point)
             IN  IF FT_Load_Glyph_Fails(face, point)
                 THEN Remember([st EXCEPT !.atlases = as, !.ret = nullptr,
                                          !.exit = "load_failed"], key)
                 ELSE IF ncurves = 0
                         \/ TooManyCurves(BezierPixelLength(ncurves))
                 THEN Remember(
                        [st EXCEPT
                           !.atlases = as,
                           !.glyphs = (key :> EmptyGlyph(face, point))
                                         @@ st.glyphs,
                           !.ret = <<EmptyGlyph(face, point)>>,
                           !.exit = "empty"], key)
                 ELSE PlaceGlyph(st, as, face, point, crash)

(* The code points LoadASCII asks for, in order: 0, then 32..127 *)
AsciiPoints == <<0>> \o [i \in 1..96 |-> 31 + i]

RECURSIVE LoadFrom(_, _, _, _)
LoadFrom(st, face, i, crash) ==
    IF i > Len(AsciiPoints) \/ st.halted THEN st
    ELSE LoadFrom(GetGlyphForCodepoint(st, face, AsciiPoints[i], crash),
                  face, i + 1, crash)

(* GLFontManager::LoadASCII, lines 710-721 *)
LoadASCII(st, face, crash) ==
    IF face = 0 THEN st ELSE LoadFrom(st, face, 1, crash)

State ==
    [atlases |-> atlases, glyphs |-> glyphs, ret |-> ret,
     returned |-> returned, halted |-> halted, faults |-> faults,
     exit |-> "none"]

Becomes(st) ==
    /\ atlases' = st.atlases
    /\ glyphs' = st.glyphs
    /\ ret' = st.ret
    /\ returned' = st.returned
    /\ halted' = st.halted
    /\ faults' = st.faults

CallGetGlyphForCodepoint(face, point) ==
    /\ pc = "idle" /\ ~halted /\ ncalls < MaxCalls
    /\ \E crash \in BOOLEAN :
         LET st == GetGlyphForCodepoint(State, face, point, crash)
         IN  /\ Becomes(st)
             /\ last' = [op |-> "GetGlyphForCodepoint", face |-> face,
                         point |-> point, exit |-> st.exit]
    /\ ncalls' = ncalls + 1
    /\ UNCHANGED cellVars
    /\ UNCHANGED gridVars
    /\ UNCHANGED decomposeVars
    /\ UNCHANGED c2qVars
    /\ UNCHANGED otherVars

CallLoadASCII(face) ==
    /\ pc = "idle" /\ ~halted /\ ncalls < MaxCalls
    /\ \E crash \in BOOLEAN : Becomes(LoadASCII(State, face, crash))
    /\ last' = [op |-> "LoadASCII", face |-> face]
    /\ ncalls' = ncalls + 1
    /\ UNCHANGED cellVars
    /\ UNCHANGED gridVars
    /\ UNCHANGED decomposeVars
    /\ UNCHANGED c2qVars
    /\ UNCHANGED otherVars

(* GLFontManager::UploadAtlases, lines 723-739 *)
UploadAtlases_ReopensGroups ==
    /\ pc = "idle" /\ ~halted
    /\ atlases' = [i \in DOMAIN atlases |->
                     [atlases[i] EXCEPT !.uploaded = TRUE, !.full = FALSE]]
    /\ last' = [op |-> "UploadAtlases"]
    /\ UNCHANGED <<glyphs, ret, returned, halted, faults, ncalls>>
    /\ UNCHANGED cellVars
    /\ UNCHANGED gridVars
    /\ UNCHANGED decomposeVars
    /\ UNCHANGED c2qVars
    /\ UNCHANGED otherVars

UploadAtlases ==
    /\ pc = "idle" /\ ~halted
    /\ atlases' = [i \in DOMAIN atlases |->
                     [atlases[i] EXCEPT !.uploaded = TRUE]]
    /\ last' = [op |-> "UploadAtlases"]
    /\ UNCHANGED <<glyphs, ret, returned, halted, faults, ncalls>>
    /\ UNCHANGED cellVars
    /\ UNCHANGED gridVars
    /\ UNCHANGED decomposeVars
    /\ UNCHANGED c2qVars
    /\ UNCHANGED otherVars

InitManager ==
    /\ atlases = <<>>
    /\ glyphs = <<>>
    /\ ret = nullptr
    /\ last = [op |-> "GLFontManager"]
    /\ returned = <<>>
    /\ halted = FALSE
    /\ faults = {}
    /\ ncalls = 0

InitCellIdle ==
    /\ cellBeziers = {}
    /\ cellMids = FALSE
    /\ data = <<0, 0, 0, 0>>
    /\ pc = "idle"

(* No glyph is given to the grid builder *)
InitGridIdle ==
    /\ args = [beziers |-> <<>>, glyphSize |-> <<0, 0>>,
               gridWidth |-> 0, gridHeight |-> 0]
    /\ gridGlyph = [width |-> 0, height |-> 0,
                    cellBeziers |-> <<>>, cellMids |-> <<>>]
    /\ rounding = <<>>
    /\ vgrid = <<>>

(* No outline is given to the decomposer *)
InitDecomposeIdle ==
    /\ outline = <<>>
    /\ curves = <<>>
    /\ prev = <<0, 0>>
    /\ emitted = 0
    /\ lineEdges = {}

(* No cubic is given to cubic2quad *)
InitC2QIdle ==
    /\ numInflections = 0
    /\ inflectionIdx = 0
    /\ nq = 0
    /\ segmentsCount = 0
    /\ iterations = 0
    /\ out = {}
    /\ c2qReturn = 0
    /\ approximation = 0
    /\ concaveAt1 = FALSE
    /\ closeCalls = <<>>
    /\ subReturn = 0

(* is_segment_approximation_close is not running *)
InitCloseIdle ==
    /\ far = {}
    /\ ninthBelow = FALSE
    /\ sample = 0
    /\ sampled = {}
    /\ segmentClose = "none"

(* No cubic segment is given to a decomposer *)
InitCubicIdle ==
    /\ cbox = <<0, 0>>
    /\ caller = "none"
    /\ errorBound = 0

(* No curve is given to write_bezier_to_buffer *)
InitWriterIdle ==
    /\ bezierIn = <<>>
    /\ sizeIn = <<0, 0>>
    /\ conversion = "none"
    /\ buffer = <<>>

(* GLLabel::GLLabel, src/lib/gllabel.cpp:43-53: an empty label *)
InitLabelIdle ==
    /\ text = <<>>
    /\ labelGlyphs = <<>>
    /\ verts = <<>>
    /\ caretPosition = 0
    /\ showingCaret = FALSE
    /\ boundAtlas = -1
    /\ drawn = <<>>
    /\ labelFaults = {}
    /\ labelLast = [op |-> "GLLabel"]
    /\ nops = 0

InitRestIdle ==
    InitCloseIdle /\ InitCubicIdle /\ InitWriterIdle /\ InitLabelIdle

InitOthersIdle ==
    InitGridIdle /\ InitDecomposeIdle /\ InitC2QIdle /\ InitRestIdle

Init == InitManager /\ InitCellIdle /\ InitOthersIdle

Next ==
    \/ \E face \in Faces, point \in Points :
           CallGetGlyphForCodepoint(face, point)
    \/ \E face \in Faces \cup {0} : CallLoadASCII(face)
    \/ UploadAtlases

Spec == Init /\ [][Next]_vars

InitCell ==
    /\ InitManager
    /\ cellBeziers \in CellSets
    /\ cellMids \in BOOLEAN
    /\ data = <<0, 0, 0, 0>>
    /\ pc = "write"
    /\ InitOthersIdle

NextCell == WriteCell

SpecCell == InitCell /\ [][NextCell]_vars

----------------------------------------------------------------------------
(* Exact numbers for the intersection solver, src/types.cpp                *)
(*                                                                         *)
(* The solver works in float.  Here a root is kept as the real number it   *)
(* stands for, (U + V * sqrt(D)) / M with integers U, V, D >= 0 and M > 0, *)
(* and every comparison, floor and rounding is decided in integers.  The   *)
(* glyphs of the model have grid and mid lines at integers or halves and   *)
(* small integer coordinates, so the float operands are all exact; what    *)
(* float still rounds is sqrt, the division by a and the products of       *)
(* X_FROM_T.  A root computed with rounding can land on either side of the *)
(* real number (which side depends on the build: -mfpmath=387 and          *)
(* -ffast-math change it); the side is the run's fp, see Lean below.       *)

Abs(x) == IF x < 0 THEN -x ELSE x

Max(a, b) == IF a >= b THEN a ELSE b

clamp(v, min, max) == Max(Min(v, max), min)

RECURSIVE GCD(_, _)
GCD(m, n) == IF n = 0 THEN m ELSE GCD(n, m % n)

RECURSIVE SqrtSearch(_, _, _)
SqrtSearch(n, lo, hi) ==
    IF lo = hi THEN lo
    ELSE LET mid == (lo + hi + 1) \div 2
         IN  IF mid * mid <= n THEN SqrtSearch(n, mid, hi)
             ELSE SqrtSearch(n, lo, mid - 1)

(* floor(sqrt(n)) and ceil(sqrt(n)), 0 <= n < 2^31 *)
ISqrt(n) == SqrtSearch(n, 0, 46340)
CeilSqrt(n) == IF sq(ISqrt(n)) = n THEN ISqrt(n) ELSE ISqrt(n) + 1
IsSquare(n) == sq(ISqrt(n)) = n

RECURSIVE IsPow2(_)
IsPow2(n) == n = 1 \/ (n > 1 /\ n % 2 = 0 /\ IsPow2(n \div 2))

(* The number (U + V sqrt(D)) / M, the fraction in lowest terms *)
Num(U, V, D, M) ==
    LET g == GCD(GCD(Abs(U), Abs(V)), M)
    IN  [U |-> U \div g, V |-> V \div g, D |-> D, M |-> M \div g]

IsRational(r) == r.V = 0 \/ IsSquare(r.D)

(* Numerator of a rational number over r.M *)
RatNum(r) == r.U + r.V * ISqrt(r.D)

IsInt(r) == IsRational(r) /\ RatNum(r) % r.M = 0

(* floor(r) *)
FloorOf(r) ==
    IF r.V >= 0
    THEN (r.U + ISqrt(sq(r.V) * r.D)) \div r.M
    ELSE (r.U - CeilSqrt(sq(r.V) * r.D)) \div r.M

(* r * num / den, num >= 0 and den > 0, in lowest terms of num / den *)
Scale(r, num, den) ==
    LET g == GCD(num, den)
    IN  Num(r.U * (num \div g), r.V * (num \div g), r.D, r.M * (den \div g))

(* r + 1/2 *)
PlusHalf(r) == Num(2 * r.U + r.M, 2 * r.V, r.D, 2 * r.M)

(* Equality of two numbers: the rational parts and the surds agree *)
NumEq(r1, r2) ==
    IF IsRational(r1) /\ IsRational(r2)
    THEN RatNum(r1) * r2.M = RatNum(r2) * r1.M
    ELSE IF IsRational(r1) \/ IsRational(r2) THEN FALSE
    ELSE /\ r1.U * r2.M = r2.U * r1.M
         /\ IsSquare(r1.D * r2.D)
         /\ r1.V * r1.D * r2.M = r2.V * ISqrt(r1.D * r2.D) * r1.M

(* 0 <= (P + s sqrt(D)) / Q <= 1 for Q > 0, s in {-1, 0, 1}: T_VALID *)
T_VALID(P, s, D, Q) ==
    CASE s = 0 -> 0 <= P /\ P <= Q
      [] s = 1 -> /\ (P >= 0 \/ D >= sq(P))
                  /\ Q - P >= 0 /\ D <= sq(Q - P)
      [] OTHER -> /\ P >= 0 /\ D <= sq(P)
                  /\ (P - Q <= 0 \/ D >= sq(P - Q))

(* X_FROM_T at t = (P + s sqrt(D)) / Q: the number                         *)
(* ((Q-T)^2 Ax + 2 T (Q-T) Bx + T^2 Cx) / Q^2 with T = P + s sqrt(D)       *)
X_FROM_T(P, s, D, Q, Ax, Bx, Cx) ==
    LET q == Q - P
    IN  Num((sq(q) + D) * Ax + 2 * (P * q - D) * Bx + (sq(P) + D) * Cx,
            s * (2 * (q - P) * Bx + 2 * P * Cx - 2 * q * Ax),
            D, sq(Q))

(* Float computes t and X_FROM_T(t) without rounding when t is a fraction  *)
(* of a power of two (sqrt of a square is exact, so is the division), and  *)
(* when Ax = Bx = Cx = 0 every product is zero.                            *)
ComputedExactly(P, s, D, Q, Ax, Bx, Cx) ==
    \/ Ax = 0 /\ Bx = 0 /\ Cx = 0
    \/ /\ s = 0 \/ IsSquare(D)
       /\ LET T == P + s * ISqrt(D)
          IN  T = 0 \/ IsPow2(Q \div GCD(Abs(T), Q))

(* One candidate root t = (P + s sqrt(D)) / Q, any sign of Q *)
RootAt(P, s, D, Q, Ax, Bx, Cx) ==
    LET Pn == IF Q < 0 THEN -P ELSE P
        sn == IF Q < 0 THEN -s ELSE s
        Qn == Abs(Q)
    IN  IF T_VALID(Pn, sn, D, Qn)
        THEN <<[x |-> X_FROM_T(Pn, sn, D, Qn, Ax, Bx, Cx),
                exact |-> ComputedExactly(Pn, sn, D, Qn, Ax, Bx, Cx)]>>
        ELSE <<>>

Bezier2(e0, c, e1) == [e0 |-> e0, c |-> c, e1 |-> e1]

(* Bezier2::IntersectHorz, src/types.cpp:23-61, for Y = Yn / Yd (Yd > 0).  *)
(* Points are <<x, y>>.  The result is outX[0 .. i-1] in order.  A zero    *)
(* divisor gives an infinity or a NaN and a negative radicand a NaN: none  *)
(* of them is T_VALID.                                                     *)
IntersectHorz_Distinct(bez, Yn, Yd) ==
    LET A == bez.e0  B == bez.c  C == bez.e1
        a == A[2] - 2 * B[2] + C[2]
        N == Yn * a + Yd * (sq(B[2]) - A[2] * C[2])
        P == (A[2] - B[2]) * Yd
        first == RootAt(P, 1, N * Yd, a * Yd, A[1], B[1], C[1])
    IN  IF a = 0
        THEN IF B[2] = C[2] THEN <<>>
             ELSE RootAt((2 * B[2] - C[2]) * Yd - Yn, 0, 0,
                         2 * (B[2] - C[2]) * Yd, A[1], B[1], C[1])
        ELSE IF N < 0 THEN <<>>
        ELSE IF N = 0 THEN first
        ELSE first \o RootAt(P, -1, N * Yd, a * Yd, A[1], B[1], C[1])

IntersectHorz(bez, Yn, Yd) ==
    LET A == bez.e0  B == bez.c  C == bez.e1
        a == A[2] - 2 * B[2] + C[2]
        N == Yn * a + Yd * (sq(B[2]) - A[2] * C[2])
        P == (A[2] - B[2]) * Yd
    IN  IF a = 0
        THEN IF B[2] = C[2] THEN <<>>
             ELSE RootAt((2 * B[2] - C[2]) * Yd - Yn, 0, 0,
                         2 * (B[2] - C[2]) * Yd, A[1], B[1], C[1])
        ELSE IF N < 0 THEN <<>>
        ELSE RootAt(P, 1, N * Yd, a * Yd, A[1], B[1], C[1])
             \o RootAt(P, -1, N * Yd, a * Yd, A[1], B[1], C[1])

(* Bezier2::IntersectVert, src/types.cpp:67-75: the same on the curve with *)
(* x and y exchanged                                                       *)
Swap(p) == <<p[2], p[1]>>

IntersectVert(bez, Xn, Xd) ==
    IntersectHorz(Bezier2(Swap(bez.e0), Swap(bez.c), Swap(bez.e1)), Xn, Xd)
----------------------------------------------------------------------------
(* The VGrid builder, src/GridGlyph.cpp:18-143                             *)
(*                                                                         *)
(* Curves are numbered from 0 as in the code, beziers[i + 1] is curve i.   *)
(* Cells are numbered (y * gridWidth) + x.  Grid sizes and glyph sizes are *)
(* at least 1 (a zero size divides by zero).                               *)

xy2i(x, y, w) == (y * w) + x

(* The float k2/2 * size / n of a grid line (k2 even) or of a mid line     *)
(* (k2 odd), as a fraction in lowest terms                                 *)
LineAt(k2, size, n) ==
    LET g == GCD(k2 * size, 2 * n)
    IN  <<(k2 * size) \div g, (2 * n) \div g>>

(* The roots one curve has on one line: the vertical grid line k, the      *)
(* horizontal grid line k or the mid line of row k                         *)
RootsOn(bez, glyphSize, gridWidth, gridHeight, kind, k) ==
    CASE kind = "vert" ->
           LET X == LineAt(2 * k, glyphSize[1], gridWidth)
           IN  IntersectVert(bez, X[1], X[2])
      [] kind = "horz" ->
           LET Y == LineAt(2 * k, glyphSize[2], gridHeight)
           IN  IntersectHorz(bez, Y[1], Y[2])
      [] OTHER ->
           LET Y == LineAt(2 * k + 1, glyphSize[2], gridHeight)
           IN  IntersectHorz(bez, Y[1], Y[2])

(* A root in grid units: intY[j] * gridHeight / glyphSize.h for a vertical *)
(* line, intX[j] * gridWidth / glyphSize.w for a horizontal or mid line    *)
GridUnits(root, glyphSize, gridWidth, gridHeight, kind) ==
    IF kind = "vert" THEN Scale(root.x, gridHeight, glyphSize[2])
    ELSE Scale(root.x, gridWidth, glyphSize[1])

(* Where float put the rounded roots on the lines of one kind: on the real *)
(* number (0), below it (-1) or above it (1).  One side is taken for all   *)
(* the rounded roots on lines of the same kind.                            *)
Lean(fp, kind, root) ==
    IF ~root.exact /\ kind \in DOMAIN fp THEN fp[kind] ELSE 0

(* Conversion of a float near r to int: truncation toward zero *)
IntCast(r, lean) ==
    LET f == FloorOf(r)
    IN  IF IsInt(r)
        THEN IF f > 0 /\ lean = -1 THEN f - 1
             ELSE IF f < 0 /\ lean = 1 THEN f + 1 ELSE f
        ELSE IF f < 0 THEN f + 1 ELSE f

(* (int)std::round of a float near r: halves go away from zero *)
RoundCast_Floor(r, lean) == IntCast(r, lean)

RoundCast(r, lean) ==
    IF FloorOf(r) >= 0
    THEN LET h == PlusHalf(r)
         IN  IF IsInt(h) /\ lean = -1 THEN FloorOf(h) - 1 ELSE FloorOf(h)
    ELSE LET z == Num(2 * r.U - r.M, 2 * r.V, r.D, 2 * r.M)
         IN  IF IsInt(z) /\ lean # 1 THEN FloorOf(z) ELSE FloorOf(z) + 1

(* The lambda setgrid, lines 27-31: the cell the index is inserted into *)
setgrid_Unclamped(x, y, gridWidth, gridHeight) == xy2i(x, y, gridWidth)

setgrid(x, y, gridWidth, gridHeight) ==
    xy2i(clamp(x, 0, gridWidth - 1), clamp(y, 0, gridHeight - 1), gridWidth)

(* Lines 36-48: the cells curve i is inserted into for its roots on the    *)
(* vertical grid lines                                                     *)
VertCells(bez, i, glyphSize, gridWidth, gridHeight, fp) ==
    UNION { LET r == RootsOn(bez, glyphSize, gridWidth, gridHeight, "vert", x)
            IN  UNION { LET y == IntCast(
                                GridUnits(r[j], glyphSize, gridWidth,
                                          gridHeight, "vert"),
                                Lean(fp, "vert", r[j]))
                        IN  {setgrid(x, y, gridWidth, gridHeight),
                             setgrid(x - 1, y, gridWidth, gridHeight)}
                        : j \in DOMAIN r }
            : x \in 0..gridWidth }

(* Lines 50-62: the same for the horizontal grid lines *)
HorzCells(bez, i, glyphSize, gridWidth, gridHeight, fp) ==
    UNION { LET r == RootsOn(bez, glyphSize, gridWidth, gridHeight, "horz", y)
            IN  UNION { LET x == IntCast(
                                GridUnits(r[j], glyphSize, gridWidth,
                                          gridHeight, "horz"),
                                Lean(fp, "horz", r[j]))
                        IN  {setgrid(x, y, gridWidth, gridHeight),
                             setgrid(x, y - 1, gridWidth, gridHeight)}
                        : j \in DOMAIN r }
            : y \in 0..gridHeight }

(* Lines 64-70: e0.x * gridWidth / glyphSize.w and the same for y are      *)
(* exact for the glyphs of the model                                       *)
FallbackCell(bez, glyphSize, gridWidth, gridHeight) ==
    setgrid(IntCast(Scale(Num(bez.e0[1], 0, 0, 1), gridWidth, glyphSize[1]), 0),
            IntCast(Scale(Num(bez.e0[2], 0, 0, 1), gridHeight, glyphSize[2]), 0),
            gridWidth, gridHeight)

anyIntersections(bez, glyphSize, gridWidth, gridHeight) ==
    \/ \E x \in 0..gridWidth :
         RootsOn(bez, glyphSize, gridWidth, gridHeight, "vert", x) # <<>>
    \/ \E y \in 0..gridHeight :
         RootsOn(bez, glyphSize, gridWidth, gridHeight, "horz", y) # <<>>

(* Lines 33-71: the body of the loop over the curves *)
CellsOfCurve_NoFallback(bez, i, glyphSize, gridWidth, gridHeight, fp) ==
    VertCells(bez, i, glyphSize, gridWidth, gridHeight, fp)
        \cup HorzCells(bez, i, glyphSize, gridWidth, gridHeight, fp)

CellsOfCurve(bez, i, glyphSize, gridWidth, gridHeight, fp) ==
    IF anyIntersections(bez, glyphSize, gridWidth, gridHeight)
    THEN VertCells(bez, i, glyphSize, gridWidth, gridHeight, fp)
             \cup HorzCells(bez, i, glyphSize, gridWidth, gridHeight, fp)
    ELSE {FallbackCell(bez, glyphSize, gridWidth, gridHeight)}

(* find_cells_intersections, lines 18-74 *)
find_cells_intersections(beziers, glyphSize, gridWidth, gridHeight, fp) ==
    LET hit == [i \in 0..(Len(beziers) - 1) |->
                  CellsOfCurve(beziers[i + 1], i, glyphSize,
                               gridWidth, gridHeight, fp)]
    IN  [cell \in 0..(gridWidth * gridHeight - 1) |->
            {i \in DOMAIN hit : cell \in hit[i]}]

(* Lines 92-102: the roots of all curves on the mid line of row y, in grid *)
(* units, each with the side float put it on                               *)
MidRoots(beziers, glyphSize, gridWidth, gridHeight, y, fp) ==
    UNION { LET r == RootsOn(beziers[i + 1], glyphSize, gridWidth,
                             gridHeight, "mid", y)
            IN  { [i |-> i, j |-> j,
                   x |-> GridUnits(r[j], glyphSize, gridWidth,
                                   gridHeight, "mid"),
                   lean |-> Lean(fp, "mid", r[j])]
                  : j \in DOMAIN r }
            : i \in 0..(Len(beziers) - 1) }

(* Two roots are the same float *)
SameFloat(r1, r2) == NumEq(r1.x, r2.x) /\ r1.lean = r2.lean

Before(r1, r2) == r1.i < r2.i \/ (r1.i = r2.i /\ r1.j < r2.j)

(* std::set<float> intersections: one element for each distinct float *)
intersections(roots) ==
    {r \in roots : ~\E r2 \in roots : Before(r2, r) /\ SameFloat(r2, r)}

(* Iteration order of the std::set<float>, ascending, as the sequence of   *)
(* (int)std::round(x) of its elements.  Elements with the same rounding    *)
(* are taken in any order: the order of the roundings is the same.         *)
RECURSIVE RoundedInOrder(_)
RoundedInOrder(S) ==
    IF S = {} THEN <<>>
    ELSE LET lo == CHOOSE r \in S :
                     \A r2 \in S : RoundCast(r.x, r.lean)
                                       <= RoundCast(r2.x, r2.lean)
         IN  <<RoundCast(lo.x, lo.lean)>> \o RoundedInOrder(S \ {lo})

(* Lines 108-126: the loop over the intersections, from element n on, with *)
(* the locals outside and start (rounded); marked is the set of the cells  *)
(* x of the row set to true so far                                         *)
RECURSIVE Traverse(_, _, _, _, _, _)
Traverse(rounded, n, outside, start, marked, gridWidth) ==
    IF n > Len(rounded) THEN marked
    ELSE LET end == rounded[n]
             startCell == clamp(start, 0, gridWidth)
             endCell == clamp(end, 0, gridWidth)
         IN  Traverse(rounded, n + 1, ~outside, end,
                      IF outside THEN marked \cup (startCell..(endCell - 1))
                      ELSE marked,
                      gridWidth)

(* The cells of row y marked mid-inside *)
RowMids_StartOutside(beziers, glyphSize, gridWidth, gridHeight, y, fp) ==
    Traverse(RoundedInOrder(intersections(
                 MidRoots(beziers, glyphSize, gridWidth, gridHeight, y, fp))),
             1, TRUE, 0, {}, gridWidth)

RowMids(beziers, glyphSize, gridWidth, gridHeight, y, fp) ==
    Traverse(RoundedInOrder(intersections(
                 MidRoots(beziers, glyphSize, gridWidth, gridHeight, y, fp))),
             1, FALSE, 0, {}, gridWidth)

(* find_cells_mids_inside, lines 78-130 *)
find_cells_mids_inside(beziers, glyphSize, gridWidth, gridHeight, fp) ==
    LET row == [y \in 0..(gridHeight - 1) |->
                  RowMids(beziers, glyphSize, gridWidth, gridHeight, y, fp)]
    IN  [cell \in 0..(gridWidth * gridHeight - 1) |->
            (cell % gridWidth) \in row[cell \div gridWidth]]

(* The roots whose side matters: computed with rounding and on a cell      *)
(* boundary (grid lines), on a rounding boundary or on another root (mid   *)
(* lines)                                                                  *)
OnCellBoundary(v, n) == IsInt(v) /\ 1 <= FloorOf(v) /\ FloorOf(v) <= n - 1

OnRoundBoundary(v, n) ==
    IsInt(PlusHalf(v)) /\ 0 <= FloorOf(v) /\ FloorOf(v) <= n - 1

AllRoots(beziers, glyphSize, gridWidth, gridHeight) ==
    UNION { UNION { UNION {
        LET r == RootsOn(beziers[i + 1], glyphSize, gridWidth, gridHeight,
                         kind, k)
        IN  { [i |-> i, j |-> j, kind |-> kind, k |-> k,
               exact |-> r[j].exact,
               v |-> GridUnits(r[j], glyphSize, gridWidth, gridHeight, kind)]
              : j \in DOMAIN r }
        : k \in 0..(IF kind = "vert" THEN gridWidth
                    ELSE IF kind = "horz" THEN gridHeight
                    ELSE gridHeight - 1) }
        : kind \in {"vert", "horz", "mid"} }
        : i \in 0..(Len(beziers) - 1) }

Rounded(beziers, glyphSize, gridWidth, gridHeight) ==
    LET all == AllRoots(beziers, glyphSize, gridWidth, gridHeight)
    IN  { r.kind : r \in
          { r \in all :
              /\ ~r.exact
              /\ CASE r.kind = "vert" -> OnCellBoundary(r.v, gridHeight)
                   [] r.kind = "horz" -> OnCellBoundary(r.v, gridWidth)
                   [] OTHER ->
                        \/ OnRoundBoundary(r.v, gridWidth)
                        \/ \E r2 \in all :
                             /\ r2.kind = "mid" /\ r2.k = r.k
                             /\ r2.i # r.i /\ NumEq(r2.v, r.v) } }

(* The outcomes of float for a glyph.  On a grid line only the side below  *)
(* changes the cell.                                                       *)
FloatOutcomes(beziers, glyphSize, gridWidth, gridHeight) ==
    {f \in [Rounded(beziers, glyphSize, gridWidth, gridHeight) -> {-1, 0, 1}] :
        \A kind \in DOMAIN f : kind # "mid" => f[kind] # 1}

----------------------------------------------------------------------------
(* The glyphs given to the builder                                         *)

(* decompose_line_to, src/lib/outline.cpp:29-35: a straight edge *)
Line(from, to) == Bezier2(from, from, to)

(* A closed contour of straight edges through pts *)
Polygon(pts) ==
    [n \in 1..Len(pts) |-> Line(pts[n], pts[(n % Len(pts)) + 1])]

Glyph(bs, size, gw, gh) ==
    [beziers |-> bs, glyphSize |-> size, gridWidth |-> gw, gridHeight |-> gh]

(* The three glyphs of the end-to-end scenarios, in font units *)
VerticalLine == Glyph(<<Line(<<0, 0>>, <<0, 100>>)>>, <<100, 100>>, 4, 4)

Triangle ==
    Glyph(Polygon(<<<<0, 0>>, <<100, 0>>, <<0, 100>>>>), <<100, 100>>, 2, 2)

Rectangle ==
    Glyph(Polygon(<<<<10, 10>>, <<10, 90>>, <<90, 90>>, <<90, 10>>>>),
          <<100, 100>>, 10, 10)

(* Small glyphs: 8 by 8 font units on grids of 1, 2 or 4 cells a side, so  *)
(* that the grid lines and the mid lines are at integers                   *)
GlyphSide == 8
GridSizes == {<<1, 1>>, <<2, 2>>, <<4, 2>>, <<4, 4>>}
CurveGridSizes == {<<1, 1>>, <<4, 2>>}
Lattice == {<<x, y>> : x, y \in {0, 4, 8}}

(* Every curve on the lattice; the ones with c = e0 are straight edges *)
SingleCurves == {Bezier2(p, c, q) : p, c, q \in Lattice}

Collinear(p, q, r) ==
    (q[1] - p[1]) * (r[2] - p[2]) = (q[2] - p[2]) * (r[1] - p[1])

PointBefore(p, q) == p[1] < q[1] \/ (p[1] = q[1] /\ p[2] < q[2])

Triangles ==
    {t \in {<<p, q, r>> : p, q, r \in Lattice} :
        /\ PointBefore(t[1], t[2]) /\ PointBefore(t[2], t[3])
        /\ ~Collinear(t[1], t[2], t[3])}

(* Contours with a peak or a valley between two other crossings of a row *)
TwoPeaks == <<<<0, 0>>, <<2, 4>>, <<4, 0>>, <<6, 8>>, <<8, 0>>>>
Valley == <<<<0, 0>>, <<0, 8>>, <<4, 4>>, <<8, 8>>, <<8, 0>>>>
Diamond == <<<<4, 0>>, <<0, 4>>, <<4, 8>>, <<8, 4>>>>

Contours == Triangles \cup {TwoPeaks, Valley, Diamond}

Glyphs ==
    {VerticalLine, Triangle, Rectangle}
        \cup {Glyph(<<b>>, <<GlyphSide, GlyphSide>>, g[1], g[2]) :
                 b \in SingleCurves, g \in CurveGridSizes}
        \cup {Glyph(Polygon(c), <<GlyphSide, GlyphSide>>, g[1], g[2]) :
                 c \in Contours, g \in GridSizes}

(* GridGlyph::GridGlyph, src/GridGlyph.cpp:132-143 *)
GridGlyphConstruct ==
    /\ pc = "construct"
    /\ \E outcome \in FloatOutcomes(args.beziers, args.glyphSize,
                                     args.gridWidth, args.gridHeight) :
         /\ rounding' = outcome
         /\ gridGlyph' =
              [width |-> args.gridWidth, height |-> args.gridHeight,
               cellBeziers |-> find_cells_intersections(
                   args.beziers, args.glyphSize, args.gridWidth,
                   args.gridHeight, outcome),
               cellMids |-> find_cells_mids_inside(
                   args.beziers, args.glyphSize, args.gridWidth,
                   args.gridHeight, outcome)]
    /\ pc' = "constructed"
    /\ UNCHANGED <<args, vgrid>>
    /\ UNCHANGED mgrVars
    /\ UNCHANGED texelVars
    /\ UNCHANGED decomposeVars
    /\ UNCHANGED c2qVars
    /\ UNCHANGED otherVars

(* VGridAtlas::WriteVGridAt, src/GridGlyph.cpp:157-172, at (0, 0) of an    *)
(* atlas of kAtlasChannels bytes a texel: the texel of every cell          *)
WriteVGridAt ==
    /\ pc = "constructed"
    /\ TileInsideAtlas(0, 0, gridGlyph.width, gridGlyph.height)
    /\ vgrid' = [cell \in DOMAIN gridGlyph.cellBeziers |->
                   WriteVGridCellAt(gridGlyph.cellBeziers[cell],
                                    gridGlyph.cellMids[cell], kAtlasChannels)]
    /\ pc' = "written"
    /\ UNCHANGED <<args, gridGlyph, rounding>>
    /\ UNCHANGED mgrVars
    /\ UNCHANGED texelVars
    /\ UNCHANGED decomposeVars
    /\ UNCHANGED c2qVars
    /\ UNCHANGED otherVars

InitGrid ==
    /\ InitManager
    /\ cellBeziers = {} /\ cellMids = FALSE /\ data = <<0, 0, 0, 0>>
    /\ args \in Glyphs
    /\ gridGlyph = [width |-> 0, height |-> 0,
                    cellBeziers |-> <<>>, cellMids |-> <<>>]
    /\ rounding = <<>>
    /\ vgrid = <<>>
    /\ pc = "construct"
    /\ InitDecomposeIdle
    /\ InitC2QIdle
    /\ InitRestIdle

NextGrid == GridGlyphConstruct \/ WriteVGridAt

SpecGrid == InitGrid /\ [][NextGrid]_vars

----------------------------------------------------------------------------
(* cubic2quad, src/lib/cubic2quad.cpp:385-508                              *)
(*                                                                         *)
(* The control flow of cubic2quad, cubic_to_quad and _cubic_to_quad.  What *)
(* the float computations decide (the roots quad_solve finds, the concave  *)
(* test, _is_approximation_close) is taken in every way.  The output       *)
(* buffer is kept as the set of its doubles written so far; quadratic q    *)
(* is the 6 doubles from 6 q on.                                           *)

MAX_INFLECTIONS == 2
MAX_SEGMENTS == 8
MAX_QUADS_OUT == MAX_SEGMENTS * (MAX_INFLECTIONS + 1)
MAX_DOUBLES_OUT == MAX_QUADS_OUT * 3 * 2

(* quad_solve, lines 133-162, returns 0, 1 or 2 roots *)
QuadSolveCounts == {0, 1, 2}

(* solve_inflections, lines 404-423: the roots above PRECISION and below   *)
(* 1 - PRECISION are kept; between[i] tells it of root i                   *)
solve_inflections(nroots, between) ==
    Cardinality({i \in 1..nroots : between[i]})

(* process_segment, lines 288-299, writes p1, c1 and p2 of one QBezier *)
DoublesOfQuad(q) == (6 * q)..(6 * q + 5)

(* Lines 443-446: approximation[0 .. segmentsCount-1] of &result[nq] *)
process_segments(base, count) ==
    UNION {DoublesOfQuad(base + i) : i \in 0..(count - 1)}

(* Line 457: the value returned when no approximation was close *)
LoopExhausted_Count(count) == count

LoopExhausted(count) == MAX_SEGMENTS

(* cubic2quad is called: cubic_to_quad lines 469-481 up to the first call  *)
(* of _cubic_to_quad                                                       *)
C2QCall ==
    /\ pc = "c2q-call"
    /\ \E nroots \in QuadSolveCounts :
         \E between \in [1..nroots -> BOOLEAN] :
             numInflections' = solve_inflections(nroots, between)
    /\ inflectionIdx' = 0
    /\ nq' = 0
    /\ segmentsCount' = 1
    /\ iterations' = 0
    /\ approximation' = 0
    /\ concaveAt1' = FALSE
    /\ closeCalls' = <<>>
    /\ pc' = "c2q-loop"
    /\ UNCHANGED <<out, c2qReturn, subReturn>>
    /\ UNCHANGED <<mgrVars, texelVars, gridVars, decomposeVars>>
    /\ UNCHANGED otherVars

(* _cubic_to_quad returns count to cubic_to_quad after iters iterations,   *)
(* lines 473, 488-494: the next sub-cubic is converted or cubic2quad       *)
(* returns                                                                 *)
SubCubicReturns(count, iters) ==
    /\ nq' = nq + count
    /\ subReturn' = count
    /\ IF inflectionIdx < numInflections
       THEN /\ inflectionIdx' = inflectionIdx + 1
            /\ segmentsCount' = 1
            /\ iterations' = 0
            /\ pc' = "c2q-loop"
            /\ UNCHANGED c2qReturn
       ELSE /\ c2qReturn' = nq + count
            /\ iterations' = iters
            /\ pc' = "c2q-done"
            /\ UNCHANGED <<inflectionIdx, segmentsCount>>

(* Lines 447-452: with one segment a candidate whose control point lies    *)
(* on the wrong side is skipped, _is_approximation_close is not called     *)
ConcaveSkips_Never(count, concave) == FALSE

ConcaveSkips(count, concave) == count = 1 /\ concave

(* One iteration of the loop of _cubic_to_quad, lines 442-456.  The first  *)
(* iteration for a sub-cubic starts from an empty closeCalls.              *)
C2QSegments ==
    /\ pc = "c2q-loop"
    /\ segmentsCount <= MAX_SEGMENTS
    /\ out' = out \cup process_segments(nq, segmentsCount)
    /\ approximation' = segmentsCount
    /\ \E concave, close \in BOOLEAN :
         LET calls == IF segmentsCount = 1 THEN <<>> ELSE closeCalls
             skips == ConcaveSkips(segmentsCount, concave)
         IN  /\ concaveAt1' = IF segmentsCount = 1 THEN concave
                              ELSE concaveAt1
             /\ closeCalls' = IF skips THEN calls
                              ELSE (segmentsCount :> close) @@ calls
             /\ IF skips \/ ~close
                THEN /\ segmentsCount' = segmentsCount + 1
                     /\ iterations' = iterations + 1
                     /\ UNCHANGED <<pc, inflectionIdx, nq, c2qReturn,
                                    subReturn>>
                ELSE SubCubicReturns(segmentsCount, iterations + 1)
    /\ UNCHANGED numInflections
    /\ UNCHANGED <<mgrVars, texelVars, gridVars, decomposeVars>>
    /\ UNCHANGED otherVars

(* The loop ends without a close approximation, line 457 *)
C2QExhausted ==
    /\ pc = "c2q-loop"
    /\ segmentsCount > MAX_SEGMENTS
    /\ SubCubicReturns(LoopExhausted(segmentsCount), iterations)
    /\ UNCHANGED <<numInflections, out, approximation, concaveAt1,
                   closeCalls>>
    /\ UNCHANGED <<mgrVars, texelVars, gridVars, decomposeVars>>
    /\ UNCHANGED otherVars

InitC2Q ==
    /\ InitManager
    /\ cellBeziers = {} /\ cellMids = FALSE /\ data = <<0, 0, 0, 0>>
    /\ InitGridIdle
    /\ InitDecomposeIdle
    /\ InitC2QIdle
    /\ InitRestIdle
    /\ pc = "c2q-call"

NextC2Q == C2QCall \/ C2QSegments \/ C2QExhausted

SpecC2Q == InitC2Q /\ [][NextC2Q]_vars

----------------------------------------------------------------------------
(* is_segment_approximation_close, src/lib/cubic2quad.cpp:302-334          *)
(*                                                                         *)
(* The loop variable t is kept as the i of t = tmin + i dt.  The sums are  *)
(* made in double: after i additions of dt the sum differs from the exact  *)
(* tmin + i dt by a few units in the last place, which decides the test    *)
(* t < tmax - dt only at i = 9, where the two sides are equal in exact     *)
(* arithmetic.  For tmin = 0, tmax = 1 the sum is 0.8999999999999999 and   *)
(* the test is true, for tmin = 0.5, tmax = 1 it is false.                 *)

(* const int n = 10, line 321 *)
SegmentN == 10

(* The loop condition t < tmax - dt of line 323 at t = tmin + i dt *)
LoopCondition(i, below) ==
    i < SegmentN - 1 \/ (i = SegmentN - 1 /\ below)

(* Lines 321-323: dt is computed and the loop starts at t = tmin + dt *)
SegmentCloseCall ==
    /\ pc = "close-call"
    /\ sample' = 1
    /\ pc' = "close-loop"
    /\ UNCHANGED <<far, ninthBelow, sampled, segmentClose>>
    /\ UNCHANGED coreVars
    /\ UNCHANGED <<cubicVars, writerVars, labelVars>>

(* One iteration, lines 323-329: the distance of the point at t to the     *)
(* quadratic is compared with errorBound                                   *)
SegmentCloseSample ==
    /\ pc = "close-loop"
    /\ LoopCondition(sample, ninthBelow)
    /\ sampled' = sampled \cup {sample}
    /\ IF sample \in far
       THEN /\ segmentClose' = "false"
            /\ pc' = "close-returned"
            /\ UNCHANGED sample
       ELSE /\ sample' = sample + 1
            /\ UNCHANGED <<segmentClose, pc>>
    /\ UNCHANGED <<far, ninthBelow>>
    /\ UNCHANGED coreVars
    /\ UNCHANGED <<cubicVars, writerVars, labelVars>>

(* The loop ends, line 330 *)
SegmentCloseReturnsTrue ==
    /\ pc = "close-loop"
    /\ ~LoopCondition(sample, ninthBelow)
    /\ segmentClose' = "true"
    /\ pc' = "close-returned"
    /\ UNCHANGED <<far, ninthBelow, sample, sampled>>
    /\ UNCHANGED coreVars
    /\ UNCHANGED <<cubicVars, writerVars, labelVars>>

InitClose ==
    /\ InitManager
    /\ cellBeziers = {} /\ cellMids = FALSE /\ data = <<0, 0, 0, 0>>
    /\ InitGridIdle
    /\ InitDecomposeIdle
    /\ InitC2QIdle
    /\ InitCubicIdle /\ InitWriterIdle /\ InitLabelIdle
    /\ far \in SUBSET (1..(SegmentN - 1))
    /\ ninthBelow \in BOOLEAN
    /\ sample = 0
    /\ sampled = {}
    /\ segmentClose = "none"
    /\ pc = "close-call"

NextClose ==
    SegmentCloseCall \/ SegmentCloseSample \/ SegmentCloseReturnsTrue

SpecClose == InitClose /\ [][NextClose]_vars

----------------------------------------------------------------------------
(* The outline decomposer, src/lib/outline.cpp                             *)
(*                                                                         *)
(* An outline is the sequence of the calls FT_Outline_Decompose makes for  *)
(* it: a move to the start of the contour, then a line or a conic for each *)
(* segment, the last one back to the start.  The outlines of the model are *)
(* one contour without cubic segments (cubic2quad is modelled above).      *)

MoveTo(to) == [op |-> "move", c1 |-> to, to |-> to]
LineTo(to) == [op |-> "line", c1 |-> to, to |-> to]
ConicTo(c1, to) == [op |-> "conic", c1 |-> c1, to |-> to]

(* The control point of the conic segments of the model *)
OffCurve == <<4, 4>>

Walk(pts, ops) ==
    <<MoveTo(pts[1])>>
        \o [n \in 1..Len(pts) |->
               IF ops[n] = "line" THEN LineTo(pts[(n % Len(pts)) + 1])
               ELSE ConicTo(OffCurve, pts[(n % Len(pts)) + 1])]

Reversed(t) == <<t[3], t[2], t[1]>>

(* The empty outline and triangles walked in both directions, each side a  *)
(* line or a conic                                                         *)
Outlines ==
    {<<>>} \cup
    {Walk(t, ops) : t \in Triangles \cup {Reversed(u) : u \in Triangles},
                    ops \in [1..3 -> {"line", "conic"}]}

(* outline->points in order: the control point and the end of each segment *)
RECURSIVE PointsFrom(_, _)
PointsFrom(o, n) ==
    IF n > Len(o) THEN <<>>
    ELSE (IF o[n].op = "conic" THEN <<o[n].c1, o[n].to>>
          ELSE IF o[n].op = "line" THEN <<o[n].to>>
          ELSE <<>>)
         \o PointsFrom(o, n + 1)

(* FT_Outline_Get_CBox, line 129: the lower left corner of the box around  *)
(* all points                                                              *)
LeastOf(S) == CHOOSE v \in S : \A w \in S : v <= w

CBoxMin(o) ==
    LET pts == PointsFrom(o, 1)
    IN  <<LeastOf({pts[n][1] : n \in DOMAIN pts}),
          LeastOf({pts[n][2] : n \in DOMAIN pts})>>

(* FT_Outline_Get_Orientation, line 144: the sign of the area of the       *)
(* polygon of the points, summed as (y - yprev) * (x + xprev)              *)
RECURSIVE AreaFrom(_, _)
AreaFrom(pts, n) ==
    IF n > Len(pts) THEN 0
    ELSE LET cur == pts[n]
             before == pts[IF n = 1 THEN Len(pts) ELSE n - 1]
         IN  (cur[2] - before[2]) * (cur[1] + before[1])
                 + AreaFrom(pts, n + 1)

FT_ORIENTATION_FILL_RIGHT == "fill-right"
FT_ORIENTATION_FILL_LEFT == "fill-left"
FT_ORIENTATION_NONE == "none"

FT_Outline_Get_Orientation(o) ==
    LET area == AreaFrom(PointsFrom(o, 1), 1)
    IN  IF area > 0 THEN FT_ORIENTATION_FILL_LEFT
        ELSE IF area < 0 THEN FT_ORIENTATION_FILL_RIGHT
        ELSE FT_ORIENTATION_NONE

(* vec2bezier, lines 13-20 *)
vec2bezier(e0, c, e1) == Bezier2(e0, c, e1)

Minus(p, origin) == <<p[1] - origin[1], p[2] - origin[2]>>

(* translate_beziers, lines 100-110 *)
translate_beziers(beziers, origin) ==
    [n \in DOMAIN beziers |->
        Bezier2(Minus(beziers[n].e0, origin), Minus(beziers[n].c, origin),
                Minus(beziers[n].e1, origin))]

(* flip_beziers, lines 113-118: e0 and e1 change places, c stays *)
flip_beziers(beziers) ==
    [n \in DOMAIN beziers |->
        Bezier2(beziers[n].e1, beziers[n].c, beziers[n].e0)]

(* GetBeziersForOutline is called, lines 122-136, and decompose starts,    *)
(* lines 75-91                                                             *)
GetBeziersForOutline ==
    /\ pc = "outline-call"
    /\ curves' = <<>>
    /\ pc' = IF Len(outline) <= 0 THEN "outline-returned" ELSE "outline-walk"
    /\ UNCHANGED <<outline, prev, emitted, lineEdges>>
    /\ UNCHANGED <<mgrVars, texelVars, gridVars, c2qVars>>
    /\ UNCHANGED otherVars

(* decompose_move_to, lines 22-27 *)
decompose_move_to ==
    /\ pc = "outline-walk"
    /\ emitted < Len(outline)
    /\ outline[emitted + 1].op = "move"
    /\ prev' = outline[emitted + 1].to
    /\ emitted' = emitted + 1
    /\ UNCHANGED <<outline, curves, lineEdges, pc>>
    /\ UNCHANGED <<mgrVars, texelVars, gridVars, c2qVars>>
    /\ UNCHANGED otherVars

(* decompose_line_to, lines 29-35 *)
decompose_line_to ==
    /\ pc = "outline-walk"
    /\ emitted < Len(outline)
    /\ outline[emitted + 1].op = "line"
    /\ curves' = Append(curves, vec2bezier(prev, prev, outline[emitted + 1].to))
    /\ lineEdges' = lineEdges \cup {Len(curves)}
    /\ prev' = outline[emitted + 1].to
    /\ emitted' = emitted + 1
    /\ UNCHANGED <<outline, pc>>
    /\ UNCHANGED <<mgrVars, texelVars, gridVars, c2qVars>>
    /\ UNCHANGED otherVars

(* decompose_conic_to, lines 37-44 *)
decompose_conic_to ==
    /\ pc = "outline-walk"
    /\ emitted < Len(outline)
    /\ outline[emitted + 1].op = "conic"
    /\ curves' = Append(curves, vec2bezier(prev, outline[emitted + 1].c1,
                                           outline[emitted + 1].to))
    /\ prev' = outline[emitted + 1].to
    /\ emitted' = emitted + 1
    /\ UNCHANGED <<outline, lineEdges, pc>>
    /\ UNCHANGED <<mgrVars, texelVars, gridVars, c2qVars>>
    /\ UNCHANGED otherVars

(* decompose returns and GetBeziersForOutline finishes, lines 138-150 *)
ReturnBeziers ==
    /\ pc = "outline-walk"
    /\ emitted = Len(outline)
    /\ LET cboxMin == CBoxMin(outline)
           beziers == IF cboxMin[1] # 0 \/ cboxMin[2] # 0
                      THEN translate_beziers(curves, cboxMin)
                      ELSE curves
           counterclockwise ==
               FT_Outline_Get_Orientation(outline) = FT_ORIENTATION_FILL_LEFT
       IN  curves' = IF counterclockwise THEN flip_beziers(beziers)
                     ELSE beziers
    /\ pc' = "outline-returned"
    /\ UNCHANGED <<outline, prev, emitted, lineEdges>>
    /\ UNCHANGED <<mgrVars, texelVars, gridVars, c2qVars>>
    /\ UNCHANGED otherVars

InitOutline ==
    /\ InitManager
    /\ cellBeziers = {} /\ cellMids = FALSE /\ data = <<0, 0, 0, 0>>
    /\ InitGridIdle
    /\ InitC2QIdle
    /\ outline \in Outlines
    /\ curves = <<>>
    /\ prev = <<0, 0>>
    /\ emitted = 0
    /\ lineEdges = {}
    /\ InitRestIdle
    /\ pc = "outline-call"

NextOutline ==
    \/ GetBeziersForOutline
    \/ decompose_move_to
    \/ decompose_line_to
    \/ decompose_conic_to
    \/ ReturnBeziers

SpecOutline == InitOutline /\ [][NextOutline]_vars

----------------------------------------------------------------------------
(* The cubic callbacks of the two decomposers: the lambda cubic_to of      *)
(* GetCurvesForOutline, src/lib/gllabel.cpp:472-503, which is the one      *)
(* GetGlyphForCodepoint uses (line 625), and decompose_cubic_to of         *)
(* GetBeziersForOutline, src/lib/outline.cpp:46-70.  Only the error bound  *)
(* each hands to cubic2quad is kept.                                       *)

(* Widths and heights of the outline's bounding box, in font units *)
BoxSizes == {0, 10, 19, 20, 30, 60, 100, 500, 1000, 2048}

(* (int)(x * 0.05) for an integer x >= 0: the double product is within one *)
(* unit in the last place of x / 20, and which integers are below it does  *)
(* not change; the cast truncates                                          *)
TruncatedTimes005(x) == x \div 20

(* src/lib/outline.cpp:136; width and height are FT_Pos, so the halving    *)
(* is an integer division                                                  *)
c2qResolution(width, height) ==
    Max(TruncatedTimes005((width + height) \div 2), 1)

(* src/lib/gllabel.cpp:481: cubic2quad(in, 5, out) *)
cubic_to ==
    /\ pc = "cubic-to"
    /\ errorBound' = 5
    /\ caller' = "GetCurvesForOutline"
    /\ pc' = "cubic-converted"
    /\ UNCHANGED cbox
    /\ UNCHANGED coreVars
    /\ UNCHANGED <<closeVars, writerVars, labelVars>>

(* src/lib/outline.cpp:59: cubic2quad(in, state->c2qResolution, out) *)
decompose_cubic_to ==
    /\ pc = "cubic-to"
    /\ errorBound' = c2qResolution(cbox[1], cbox[2])
    /\ caller' = "GetBeziersForOutline"
    /\ pc' = "cubic-converted"
    /\ UNCHANGED cbox
    /\ UNCHANGED coreVars
    /\ UNCHANGED <<closeVars, writerVars, labelVars>>

InitCubic ==
    /\ InitManager
    /\ cellBeziers = {} /\ cellMids = FALSE /\ data = <<0, 0, 0, 0>>
    /\ InitGridIdle
    /\ InitDecomposeIdle
    /\ InitC2QIdle
    /\ InitCloseIdle /\ InitWriterIdle /\ InitLabelIdle
    /\ cbox \in BoxSizes \X BoxSizes
    /\ caller = "none"
    /\ errorBound = 0
    /\ pc = "cubic-to"

NextCubic == cubic_to \/ decompose_cubic_to

SpecCubic == InitCubic /\ [][NextCubic]_vars

----------------------------------------------------------------------------
(* write_bezier_to_buffer, src/lib/gllabel.cpp:567-577                     *)
(*                                                                         *)
(* buffer[k] = v * UINT16_MAX / dim is computed in float and converted to  *)
(* uint16_t.  The curves and glyph sizes of the model have small integer   *)
(* coordinates and sizes that are powers of two, so every float operand    *)
(* and result is exact and is kept as the fraction num / den.              *)

UINT16_MAX == 65535

(* Conversion of a float to an integer type discards the fraction *)
TruncateToZero(num, den) ==
    IF num >= 0 THEN num \div den ELSE -((-num) \div den)

(* Conversion of the float num / den to uint16_t.  If the truncated value  *)
(* is not a uint16_t the behaviour is undefined: the conversion            *)
(* instruction either keeps the low 16 bits of the truncated integer       *)
(* ("wrap", cvttss2si) or saturates ("saturate", fcvtzu).                  *)
FloatToUint16(num, den, conv) ==
    LET t == TruncateToZero(num, den)
    IN  IF 0 <= t /\ t <= UINT16_MAX THEN t
        ELSE IF conv = "wrap" THEN t % (UINT16_MAX + 1)
        ELSE IF t < 0 THEN 0 ELSE UINT16_MAX

(* Lines 570-575 *)
ScaledCoords(bez, size, conv) ==
    <<FloatToUint16(bez.e0[1] * UINT16_MAX, size[1], conv),
      FloatToUint16(bez.e0[2] * UINT16_MAX, size[2], conv),
      FloatToUint16(bez.c[1] * UINT16_MAX, size[1], conv),
      FloatToUint16(bez.c[2] * UINT16_MAX, size[2], conv),
      FloatToUint16(bez.e1[1] * UINT16_MAX, size[1], conv),
      FloatToUint16(bez.e1[2] * UINT16_MAX, size[2], conv)>>

write_bezier_to_buffer ==
    /\ pc = "bezier-write"
    /\ buffer' = ScaledCoords(bezierIn, sizeIn, conversion)
    /\ pc' = "bezier-written"
    /\ UNCHANGED <<bezierIn, sizeIn, conversion>>
    /\ UNCHANGED coreVars
    /\ UNCHANGED <<closeVars, cubicVars, labelVars>>

(* Curve points inside the glyph, on its border and outside it *)
WriterPoints == {<<0, 0>>, <<1, 3>>, <<4, 4>>, <<3, 1>>, <<-1, 5>>}
WriterSizes == {<<4, 4>>, <<2, 4>>}

InitWriter ==
    /\ InitManager
    /\ cellBeziers = {} /\ cellMids = FALSE /\ data = <<0, 0, 0, 0>>
    /\ InitGridIdle
    /\ InitDecomposeIdle
    /\ InitC2QIdle
    /\ InitCloseIdle /\ InitCubicIdle /\ InitLabelIdle
    /\ bezierIn \in {Bezier2(e0, c, e1) : e0, c, e1 \in WriterPoints}
    /\ sizeIn \in WriterSizes
    /\ conversion \in {"wrap", "saturate"}
    /\ buffer = <<>>
    /\ pc = "bezier-write"

NextWriter == write_bezier_to_buffer

SpecWriter == InitWriter /\ [][NextWriter]_vars

----------------------------------------------------------------------------
(* The text label GLLabel: InsertText, RemoveText and Render of            *)
(* src/lib/gllabel.cpp:61-296; SetText, AppendText, GetText, ShowCaret and *)
(* SetCaretPosition are inline in the class declaration, src/label.hpp.    *)
(*                                                                         *)
(* The text is one line (no '\r', '\n' or '\t') and a vertex is kept as    *)
(* the x of its pos.  size_t is 64 bits wide; the model keeps SizeBits     *)
(* bits of it, enough for every index into the arrays of a text of         *)
(* MaxText code points, so that index + length wraps around for the        *)
(* largest values.  An access outside an array is undefined behaviour:     *)
(* the call either crashes or goes on as the build of libstdc++ does, and  *)
(* no further call is made on the label after it.                          *)

SizeBits == 6
SizeMod == 2 ^ SizeBits
SIZE_MAX == SizeMod - 1

MaxText == 3     \* longest text of the label
MaxOps == 4      \* label calls in one behaviour

(* The font manager the label uses has loaded 'A' into atlas group 0 and,  *)
(* after that group was closed, 'B' into group 1; the caret '|' is in      *)
(* group 0; FT_Load_Glyph fails for code point 200.  A Glyph pointer is    *)
(* nullptr or <<the Glyph>>.                                               *)
LabelGlyph(point) ==
    CASE point = 65 -> <<[size |-> <<4, 8>>, offset |-> <<1, 0>>,
                          bezierAtlasPos |-> <<0, 0>>, advance |-> 6]>>
      [] point = 66 -> <<[size |-> <<5, 8>>, offset |-> <<0, 0>>,
                          bezierAtlasPos |-> <<0, 1>>, advance |-> 7]>>
      [] point = 124 -> <<[size |-> <<1, 9>>, offset |-> <<0, -1>>,
                           bezierAtlasPos |-> <<9, 0>>, advance |-> 2]>>
      [] OTHER -> nullptr

(* this->manager->atlases.size() *)
LabelAtlasGroups == 2

(* GlyphVertex emptyVert{} *)
emptyVert == 0

(* s with t inserted before the element of index i (from 0) *)
InsertAt(s, i, t) == SubSeq(s, 1, i) \o t \o SubSeq(s, i + 1, Len(s))

(* erase(begin() + first, begin() + end).  With end < first the range is   *)
(* invalid; libstdc++ then moves the elements from end on to first and the *)
(* vector grows by first - end elements.                                   *)
Erase(s, first, end) == SubSeq(s, 1, first) \o SubSeq(s, end + 1, Len(s))

(* -glyph->offset[0] + glyph->advance for a non-null Glyph pointer *)
AdvancePast(glyph) ==
    IF glyph = nullptr THEN 0 ELSE glyph[1].advance - glyph[1].offset[1]

(* Lines 87-123, the loop over the inserted code points from the i-th on *)
RECURSIVE PlaceChars(_, _, _, _, _)
PlaceChars(lab, t, index, i, appendOffset) ==
    IF i >= Len(t) THEN [lab |-> lab, appendOffset |-> appendOffset]
    ELSE LET glyph == LabelGlyph(t[i + 1])
             base == (index + i) * 6
             v == lab.verts
         IN  IF glyph = nullptr
             THEN PlaceChars([lab EXCEPT !.verts[base + 1] = appendOffset],
                             t, index, i + 1, appendOffset)
             ELSE PlaceChars(
                    [lab EXCEPT
                       !.verts = [k \in DOMAIN v |->
                          IF base < k /\ k <= base + 6
                          THEN appendOffset
                                 + ((k - base - 1) % 2) * glyph[1].size[1]
                                 + glyph[1].offset[1]
                          ELSE v[k]],
                       !.glyphs[index + i + 1] = glyph],
                    t, index, i + 1, appendOffset + glyph[1].advance)

(* GLLabel::InsertText, lines 61-166 *)
InsertText(lab, t, index0) ==
    LET index == IF index0 > Len(lab.text) THEN Len(lab.text) ELSE index0
        inserted ==
            [lab EXCEPT
               !.text = InsertAt(@, index, t),
               !.glyphs = InsertAt(@, index, [i \in 1..Len(t) |-> nullptr]),
               !.verts = InsertAt(@, index * 6,
                                  [i \in 1..(Len(t) * 6) |-> emptyVert])]
        appendOffset ==
            IF index > 0
            THEN inserted.verts[(index - 1) * 6 + 1]
                   + AdvancePast(inserted.glyphs[index])
            ELSE 0
        placed == PlaceChars(inserted, t, index, 0, appendOffset)
        deltaAppend == placed.appendOffset - appendOffset
        w == placed.lab.verts
    IN  [placed.lab EXCEPT
           !.verts = [k \in DOMAIN w |->
                        IF k > (index + Len(t)) * 6 THEN w[k] + deltaAppend
                        ELSE w[k]]]

(* GLLabel::RemoveText, lines 168-221.  crash tells what an undefined      *)
(* access does, stray is what the Glyph read outside glyphs adds to        *)
(* endOffset.                                                              *)
RemoveText(lab, index, length0, crash, stray) ==
    LET size == Len(lab.text)
    IN  IF index >= size THEN lab
        ELSE
        LET length == IF (index + length0) % SizeMod > size
                      THEN size - index ELSE length0
            eraseEnd == (index + length) % SizeMod
            readAt == (index + length - 1) % SizeMod
            readOutside == readAt >= Len(lab.glyphs)
            badRange == eraseEnd < index
            startOffset ==
                IF index > 0
                THEN lab.verts[(index - 1) * 6 + 1]
                       + AdvancePast(lab.glyphs[index])
                ELSE 0
            endOffset ==
                lab.verts[index * 6 + 1]
                  + (IF readOutside THEN stray
                     ELSE AdvancePast(lab.glyphs[readAt + 1]))
            deltaOffset == endOffset - startOffset
            f == (IF readOutside THEN {"glyphs_read_outside"} ELSE {})
                 \cup (IF badRange THEN {"erase_invalid_range"} ELSE {})
            erased ==
                [lab EXCEPT
                   !.text = Erase(@, index, Min(index + length, size)),
                   !.glyphs = Erase(@, index, eraseEnd),
                   !.verts = Erase(@, index * 6, eraseEnd * 6),
                   !.faults = @ \cup f]
            w == erased.verts
        IN  IF f # {} /\ crash
            THEN [lab EXCEPT !.faults = @ \cup f \cup {"crashed"}]
            ELSE [erased EXCEPT
                    !.verts = [k \in DOMAIN w |->
                                 IF k > index * 6
                                    /\ k <= Len(erased.text) * 6
                                 THEN w[k] - deltaOffset
                                 ELSE w[k]]]

(* src/label.hpp:124-127 *)
SetText(lab, t, crash, stray) ==
    InsertText(RemoveText(lab, 0, Len(lab.text), crash, stray), t, 0)

(* src/label.hpp:128-130 *)
AppendText(lab, t) == InsertText(lab, t, Len(lab.text))

(* src/label.hpp:132 *)
GetText == text

Label ==
    [text |-> text, glyphs |-> labelGlyphs, verts |-> verts,
     faults |-> labelFaults]

LabelBecomes(lab) ==
    /\ text' = lab.text
    /\ labelGlyphs' = lab.glyphs
    /\ verts' = lab.verts
    /\ labelFaults' = lab.faults

(* A call can be made: the label is defined and the bounds allow it *)
LabelReady ==
    /\ pc = "label"
    /\ labelFaults = {}
    /\ nops < MaxOps

Texts == {<<>>, <<65>>, <<66>>, <<65, 66>>, <<200>>}
SizeValues == (0..MaxText) \cup {SIZE_MAX - 1, SIZE_MAX}

CallInsertText(t, index) ==
    /\ LabelReady
    /\ Len(text) + Len(t) <= MaxText
    /\ LabelBecomes(InsertText(Label, t, index))
    /\ labelLast' = [op |-> "InsertText", text |-> t, index |-> index]
    /\ nops' = nops + 1
    /\ UNCHANGED <<caretPosition, showingCaret, boundAtlas, drawn>>
    /\ UNCHANGED <<pc, coreVars, closeVars, cubicVars, writerVars>>

CallRemoveText(index, length) ==
    /\ LabelReady
    /\ \E crash \in BOOLEAN, stray \in {0, 1} :
           LabelBecomes(RemoveText(Label, index, length, crash, stray))
    /\ labelLast' = [op |-> "RemoveText", index |-> index,
                     length |-> length]
    /\ nops' = nops + 1
    /\ UNCHANGED <<caretPosition, showingCaret, boundAtlas, drawn>>
    /\ UNCHANGED <<pc, coreVars, closeVars, cubicVars, writerVars>>

CallSetText(t) ==
    /\ LabelReady
    /\ \E crash \in BOOLEAN, stray \in {0, 1} :
           LabelBecomes(SetText(Label, t, crash, stray))
    /\ labelLast' = [op |-> "SetText", text |-> t]
    /\ nops' = nops + 1
    /\ UNCHANGED <<caretPosition, showingCaret, boundAtlas, drawn>>
    /\ UNCHANGED <<pc, coreVars, closeVars, cubicVars, writerVars>>

CallAppendText(t) ==
    /\ LabelReady
    /\ Len(text) + Len(t) <= MaxText
    /\ LabelBecomes(AppendText(Label, t))
    /\ labelLast' = [op |-> "AppendText", text |-> t]
    /\ nops' = nops + 1
    /\ UNCHANGED <<caretPosition, showingCaret, boundAtlas, drawn>>
    /\ UNCHANGED <<pc, coreVars, closeVars, cubicVars, writerVars>>

(* src/label.hpp:136; position is an int *)
SetCaretPosition(position) ==
    /\ LabelReady
    /\ caretPosition' = clamp(position, 0, Len(text))
    /\ labelLast' = [op |-> "SetCaretPosition", position |-> position]
    /\ nops' = nops + 1
    /\ UNCHANGED <<text, labelGlyphs, verts, showingCaret, boundAtlas,
                   drawn, labelFaults>>
    /\ UNCHANGED <<pc, coreVars, closeVars, cubicVars, writerVars>>

(* src/label.hpp:135 *)
ShowCaret(show) ==
    /\ LabelReady
    /\ showingCaret' = show
    /\ labelLast' = [op |-> "ShowCaret", show |-> show]
    /\ nops' = nops + 1
    /\ UNCHANGED <<text, labelGlyphs, verts, caretPosition, boundAtlas,
                   drawn, labelFaults>>
    /\ UNCHANGED <<pc, coreVars, closeVars, cubicVars, writerVars>>

(* GLFontManager::UseAtlasTextures, src/lib/gllabel.cpp:751-761 *)
UseAtlasTextures(atlasIndex) ==
    IF atlasIndex >= LabelAtlasGroups THEN boundAtlas ELSE atlasIndex

(* Lines 245-255 of Render: the reads made to place the caret *)
CaretReads ==
    IF caretPosition > 0
    THEN (IF (caretPosition - 1) * 6 >= Len(verts)
          THEN {"verts_read_outside"} ELSE {})
         \cup (IF caretPosition - 1 >= Len(labelGlyphs)
               THEN {"glyphs_read_outside"} ELSE {})
    ELSE {}

(* GLLabel::Render, lines 223-296.  One glDrawArrays call draws every      *)
(* vertex with the textures bound by UseAtlasTextures(0); blink is the     *)
(* phase of the caret, !((int)(caretTime*3/2) % 2).                        *)
Render ==
    /\ LabelReady
    /\ boundAtlas' = UseAtlasTextures(0)
    /\ drawn' = [i \in 1..(Len(verts) \div 6) |-> boundAtlas']
    /\ \E blink \in BOOLEAN :
           labelFaults' = IF showingCaret /\ blink
                          THEN labelFaults \cup CaretReads
                          ELSE labelFaults
    /\ labelLast' = [op |-> "Render"]
    /\ nops' = nops + 1
    /\ UNCHANGED <<text, labelGlyphs, verts, caretPosition, showingCaret>>
    /\ UNCHANGED <<pc, coreVars, closeVars, cubicVars, writerVars>>

InitLabel ==
    /\ InitManager
    /\ cellBeziers = {} /\ cellMids = FALSE /\ data = <<0, 0, 0, 0>>
    /\ InitGridIdle
    /\ InitDecomposeIdle
    /\ InitC2QIdle
    /\ InitCloseIdle /\ InitCubicIdle /\ InitWriterIdle
    /\ InitLabelIdle
    /\ pc = "label"

NextLabel ==
    \/ \E t \in Texts, index \in SizeValues : CallInsertText(t, index)
    \/ \E index, length \in SizeValues : CallRemoveText(index, length)
    \/ \E t \in Texts : CallSetText(t)
    \/ \E t \in Texts : CallAppendText(t)
    \/ \E position \in -1..(MaxText + 1) : SetCaretPosition(position)
    \/ \E show \in BOOLEAN : ShowCaret(show)
    \/ Render

SpecLabel == InitLabel /\ [][NextLabel]_vars

----------------------------------------------------------------------------
(* Claims about the cell encoder, checked under SpecCell                   *)

BelowLimit(S) == \A i \in S : i < 254

(* C1: for every written cell whose curve indices are all below 254, the   *)
(* stored bytes satisfy b0 > b1 exactly when the cell's mid-inside flag is *)
(* set, so the shader's test recovers the flag.                            *)
C1_MidInsideRecovered ==
    (pc = "written" /\ BelowLimit(cellBeziers))
        => (ShaderMidInside(data) <=> cellMids)

C1_Witness ==
    /\ pc = "written"
    /\ BelowLimit(cellBeziers)
    /\ Cardinality(cellBeziers) >= 2
    /\ cellMids
    /\ data[1] > data[2]

(* The indices the shader recovers from a texel: bytes >= 2, minus the bias *)
StoredSlots(texel) == {k \in 1..kAtlasChannels : texel[k] >= kBezierIndexFirstReal}
RecoveredIndices(texel) == {texel[k] - kBezierIndexFirstReal : k \in StoredSlots(texel)}

(* The n smallest elements of S *)
Smallest(S, n) == {x \in S : Cardinality({y \in S : y < x}) < n}

(* C5: the indices recoverable from a written cell (indices below 254) are *)
(* exactly the min(|S|, 4) smallest elements of S, each stored once.       *)
C5_StoredIndices ==
    (pc = "written" /\ BelowLimit(cellBeziers))
        => /\ RecoveredIndices(data) = Smallest(cellBeziers, kAtlasChannels)
           /\ Cardinality(StoredSlots(data))
                 = Min(Cardinality(cellBeziers), kAtlasChannels)

C5_Witness ==
    /\ pc = "written"
    /\ BelowLimit(cellBeziers)
    /\ Cardinality(cellBeziers) = 5
    /\ RecoveredIndices(data) = cellBeziers \ {253}

----------------------------------------------------------------------------
(* Claims about the font manager, checked under Spec                       *)

(* Keys of the glyphs stored in an atlas group, and where they are *)
StoredKeys == {k \in DOMAIN glyphs : glyphs[k].bezierAtlasPos[2] >= 0}
GroupOf(k) == atlases[glyphs[k].bezierAtlasPos[2] + 1]
DataOffsetOf(k) == glyphs[k].bezierAtlasPos[1]

(* The last call was GetGlyphForCodepoint, for this key *)
LastWasGetGlyph == last.op = "GetGlyphForCodepoint"
LastKey == <<last.face, last.point>>

(* Pixels a record of the glyph-data buffer covers: first and one past last *)
RecordEnd(r) == r.at + RecordLength(r.nbeziers)
RecordsOverlap(r1, r2) == r1.at < RecordEnd(r2) /\ r2.at < RecordEnd(r1)
TilesOverlap(t1, t2) ==
    /\ t1.atX < t2.atX + t2.width /\ t2.atX < t1.atX + t1.width
    /\ t1.atY < t2.atY + t2.height /\ t2.atY < t1.atY + t1.height

(* C2: every grid tile lies inside the grid atlas and the two asserts of   *)
(* WriteVGridAt never fail.                                                *)
C2_TilesInsideAtlas ==
    /\ "grid_atlas_overflow" \notin faults
    /\ \A g \in DOMAIN atlases : \A i \in DOMAIN atlases[g].gridAtlas :
         LET t == atlases[g].gridAtlas[i]
         IN  t.atX + kGridMaxSize <= kGridAtlasSize
             /\ t.atY + kGridMaxSize <= kGridAtlasSize

(* Some buffer holds bytes written for key k *)
HasBytesOf(k) ==
    \E g \in DOMAIN atlases :
        \/ \E i \in DOMAIN atlases[g].glyphDataBuf :
               atlases[g].glyphDataBuf[i].key = k
        \/ \E i \in DOMAIN atlases[g].gridAtlas :
               atlases[g].gridAtlas[i].key = k

(* C3: a call for a glyph whose record of 2 + 3N pixels exceeds            *)
(* kBezierAtlasSize^2 returns a record with group index -1, size and       *)
(* advance from the metrics, and writes nothing to any group.              *)
C3_TooManyCurvesSentinel ==
    (/\ LastWasGetGlyph
     /\ ~FT_Load_Glyph_Fails(last.face, last.point)
     /\ RecordLength(FontCurves(last.face, last.point)) > sq(kBezierAtlasSize))
        => /\ ret = <<EmptyGlyph(last.face, last.point)>>
           /\ ~HasBytesOf(LastKey)

(* C4: in every group the data cursor stays within the buffer and every    *)
(* record written fits in it.                                              *)
C4_RecordsFit ==
    \A g \in DOMAIN atlases :
        /\ atlases[g].glyphDataBufOffset <= sq(kBezierAtlasSize)
        /\ \A i \in DOMAIN atlases[g].glyphDataBuf :
               RecordEnd(atlases[g].glyphDataBuf[i]) <= sq(kBezierAtlasSize)

(* C6: a call for a key that was asked for before returns what the first   *)
(* call returned and changes no atlas group, nor their number, nor the     *)
(* cache.                                                                  *)
C6_Idempotent ==
    [][(/\ last'.op = "GetGlyphForCodepoint"
        /\ ncalls' = ncalls + 1
        /\ <<last'.face, last'.point>> \in DOMAIN returned)
          => /\ ret' = returned[<<last'.face, last'.point>>]
             /\ atlases' = atlases
             /\ glyphs' = glyphs]_vars

C6_Witness ==
    /\ LastWasGetGlyph
    /\ last.exit = "cached"
    /\ LastKey \in StoredKeys
    /\ ret = <<glyphs[LastKey]>>
    /\ ret = returned[LastKey]

(* C7: every call of GetGlyphForCodepoint that returns, returns a record   *)
(* which is in the cache.                                                  *)
C7_AlwaysARecord ==
    (LastWasGetGlyph /\ ~halted)
        => /\ ret # nullptr
           /\ LastKey \in DOMAIN glyphs
           /\ ret = <<glyphs[LastKey]>>

(* The test of line 653 and the tests of lines 660-663, on a group *)
DataCheckFails(grp, ncurves) ==
    grp.glyphDataBufOffset + BezierPixelLength(ncurves) > sq(kBezierAtlasSize)
GridCheckFails(grp) ==
    /\ grp.nextGridPos[1] + kGridMaxSize > kGridAtlasSize
    /\ grp.nextGridPos[2] + kGridMaxSize >= kGridAtlasSize

(* The step is one GetGlyphForCodepoint call, for a key not in the cache,  *)
(* of a glyph with curves that does not fit in the open group              *)
RolloverCall ==
    /\ last'.op = "GetGlyphForCodepoint"
    /\ ncalls' = ncalls + 1
    /\ <<last'.face, last'.point>> \notin DOMAIN glyphs
    /\ ~FT_Load_Glyph_Fails(last'.face, last'.point)
    /\ FontCurves(last'.face, last'.point) > 0
    /\ Len(atlases) > 0
    /\ \/ DataCheckFails(atlases[Len(atlases)],
                         FontCurves(last'.face, last'.point))
       \/ GridCheckFails(atlases[Len(atlases)])

(* What the claim says of such a step: the open group becomes full, one    *)
(* group is added, the glyph's whole record and whole tile are in the new  *)
(* group and nothing of it in the old one.                                 *)
RolledOver ==
    LET n == Len(atlases)
        key == <<last'.face, last'.point>>
        new == atlases'[n + 1]
    IN  /\ Len(atlases') = n + 1
        /\ atlases'[n].full
        /\ atlases'[n].glyphDataBuf = atlases[n].glyphDataBuf
        /\ atlases'[n].gridAtlas = atlases[n].gridAtlas
        /\ key \in DOMAIN glyphs'
        /\ glyphs'[key].bezierAtlasPos[2] = n
        /\ Len(new.glyphDataBuf) = 1
        /\ new.glyphDataBuf[1].key = key
        /\ new.glyphDataBuf[1].at = glyphs'[key].bezierAtlasPos[1]
        /\ new.glyphDataBuf[1].nbeziers = FontCurves(key[1], key[2])
        /\ RecordEnd(new.glyphDataBuf[1]) <= sq(kBezierAtlasSize)
        /\ Len(new.gridAtlas) = 1
        /\ new.gridAtlas[1].key = key
        /\ TileInsideAtlas(new.gridAtlas[1].atX, new.gridAtlas[1].atY,
                           kGridMaxSize, kGridMaxSize)

(* C8: a glyph with curves that does not fit in the open group closes that *)
(* group, opens exactly one new group and is stored whole in the new one.  *)
C8_Rollover == [][RolloverCall => RolledOver]_vars

(* The records of one buffer are pairwise disjoint, and so are the tiles *)
RecordsDisjoint(buf) ==
    \A i \in DOMAIN buf : \A j \in DOMAIN buf :
        i < j => ~RecordsOverlap(buf[i], buf[j])
TilesDisjoint(grid) ==
    \A i \in DOMAIN grid : \A j \in DOMAIN grid :
        i < j => ~TilesOverlap(grid[i], grid[j])

IsPrefix(s, t) == Len(s) <= Len(t) /\ \A i \in DOMAIN s : s[i] = t[i]

(* One step keeps what was written: groups are kept, writes are only added *)
(* after the ones made, a full group gets none, and no cached record       *)
(* changes.                                                                *)
AppendOnlyStep ==
    /\ Len(atlases) <= Len(atlases')
    /\ \A g \in DOMAIN atlases :
         /\ IsPrefix(atlases[g].glyphDataBuf, atlases'[g].glyphDataBuf)
         /\ IsPrefix(atlases[g].gridAtlas, atlases'[g].gridAtlas)
         /\ atlases[g].full =>
              /\ atlases'[g].glyphDataBuf = atlases[g].glyphDataBuf
              /\ atlases'[g].gridAtlas = atlases[g].gridAtlas
    /\ \A k \in DOMAIN glyphs : k \in DOMAIN glyphs' /\ glyphs'[k] = glyphs[k]

(* C9: placements are append-only: no step changes a cached record or      *)
(* writes into a full group, and the writes made into one buffer never     *)
(* overlap, so that no written byte is written again.                      *)
C9_AppendOnly ==
    [][/\ AppendOnlyStep
       /\ \A g \in DOMAIN atlases' :
            /\ RecordsDisjoint(atlases'[g].glyphDataBuf)
            /\ TilesDisjoint(atlases'[g].gridAtlas)]_vars

(* The content of pixel p of a glyph-data buffer: what the last record     *)
(* covering it wrote there (the buffer is zero-filled at first)            *)
LastWriter(buf, p) ==
    LET covering == {i \in DOMAIN buf : buf[i].at <= p /\ p < RecordEnd(buf[i])}
    IN  IF covering = {} THEN 0
        ELSE CHOOSE i \in covering : \A j \in covering : j <= i
PixelAt(buf, p) ==
    LET i == LastWriter(buf, p)
    IN  IF i = 0 THEN <<0, 0>>
        ELSE IF p = buf[i].at THEN <<buf[i].grid[1], buf[i].grid[2]>>
        ELSE IF p = buf[i].at + 1 THEN <<buf[i].grid[3], buf[i].grid[4]>>
        ELSE <<"bezier", buf[i].key, p - buf[i].at - 2>>

(* C10: for every stored glyph the two header pixels at its data offset    *)
(* hold the origin and size of its tile in the same group, and its N curve *)
(* triples follow, unmodified, inside that group's buffer.                 *)
C10_RecordConsistent ==
    \A k \in StoredKeys :
        LET g == glyphs[k].bezierAtlasPos[2] + 1
            off == DataOffsetOf(k)
            n == FontCurves(k[1], k[2])
        IN  /\ g \in DOMAIN atlases
            /\ \E t \in DOMAIN atlases[g].gridAtlas :
                 LET tile == atlases[g].gridAtlas[t]
                 IN  /\ tile.key = k
                     /\ PixelAt(atlases[g].glyphDataBuf, off)
                          = <<tile.atX, tile.atY>>
                     /\ PixelAt(atlases[g].glyphDataBuf, off + 1)
                          = <<tile.width, tile.height>>
            /\ off + 2 + 3 * n <= sq(kBezierAtlasSize)
            /\ \E i \in DOMAIN atlases[g].glyphDataBuf :
                 LET r == atlases[g].glyphDataBuf[i]
                 IN  /\ r.key = k /\ r.at = off /\ r.nbeziers = n
                     /\ \A j \in DOMAIN atlases[g].glyphDataBuf :
                          j > i => ~RecordsOverlap(r, atlases[g].glyphDataBuf[j])

----------------------------------------------------------------------------
(* C11: in every step of the manager a group's full flag never goes back   *)
(* from true to false; the groups present stay, at their index, with what  *)
(* was written into them still there; and every group the step creates is  *)
(* the first one or follows a group that is full.                          *)
GroupCreatedWhenNeeded(g) == g = 1 \/ atlases'[g - 1].full

GroupsOnlyGrow ==
    /\ Len(atlases) <= Len(atlases')
    /\ \A g \in DOMAIN atlases :
           /\ atlases[g].full => atlases'[g].full
           /\ IsPrefix(atlases[g].glyphDataBuf, atlases'[g].glyphDataBuf)
           /\ IsPrefix(atlases[g].gridAtlas, atlases'[g].gridAtlas)
    /\ \A g \in (DOMAIN atlases') \ (DOMAIN atlases) :
           GroupCreatedWhenNeeded(g)

C11_FullLatchGroupsGrow == [][GroupsOnlyGrow]_vars

(* A second group exists behind a full first one, and glyphs went to both *)
C11_Witness ==
    /\ Len(atlases) >= 2
    /\ atlases[1].full /\ ~atlases[2].full
    /\ atlases[1].glyphDataBuf # <<>>
    /\ atlases[2].glyphDataBuf # <<>>

----------------------------------------------------------------------------
(* Claims about the VGrid builder, checked under SpecGrid                  *)

Constructed == pc \in {"constructed", "written"}

CurveIndices == 0..(Len(args.beziers) - 1)

Curve(i) == args.beziers[i + 1]

Cells == 0..(args.gridWidth * args.gridHeight - 1)

CellAt(x, y) == (y * args.gridWidth) + x

CellsWith(i) == {cell \in Cells : i \in gridGlyph.cellBeziers[cell]}

(* The roots the curves have on the lines of the grid of this glyph *)
Roots == AllRoots(args.beziers, args.glyphSize, args.gridWidth,
                  args.gridHeight)

CrossesNoGridLine(i) ==
    \A r \in Roots : r.i = i => r.kind = "mid"

(* The cell a point of the glyph falls into, the last column and the top   *)
(* row taking the points of the right and upper border                     *)
CellOfPoint(p) ==
    CellAt(clamp((p[1] * args.gridWidth) \div args.glyphSize[1],
                 0, args.gridWidth - 1),
           clamp((p[2] * args.gridHeight) \div args.glyphSize[2],
                 0, args.gridHeight - 1))

(* C12: in the grid built, every curve index is in the set of at least one *)
(* cell, and a curve that crosses no grid line is in exactly one cell, the *)
(* (clamped) cell its e0 falls into.                                       *)
C12_NoCurveDropped ==
    Constructed =>
        \A i \in CurveIndices :
            /\ CellsWith(i) # {}
            /\ CrossesNoGridLine(i) =>
                   CellsWith(i) = {CellOfPoint(Curve(i).e0)}

(* A grid was built from a curve that crosses no grid line and starts at   *)
(* x = 0: the fallback put it into column 0                                *)
C12_Witness ==
    /\ Constructed
    /\ \E i \in CurveIndices :
           /\ CrossesNoGridLine(i)
           /\ Curve(i).e0[1] = 0
           /\ \E cell \in CellsWith(i) : cell % args.gridWidth = 0

----------------------------------------------------------------------------
(* The roots of curve i on the grid lines *)
GridRootsOf(i) == {r \in Roots : r.i = i /\ r.kind # "mid"}

(* floor of the float the solver returned for a root, in grid units *)
FloatFloor(r) ==
    IF IsInt(r.v) /\ Lean(rounding, r.kind, r) = -1
    THEN FloorOf(r.v) - 1
    ELSE FloorOf(r.v)

Column(x) == clamp(x, 0, args.gridWidth - 1)

Row(y) == clamp(y, 0, args.gridHeight - 1)

(* The two cells of the statement for one root: k is clamped first and the *)
(* cell before it is max(k' - 1, 0)                                        *)
CellsClaimed(r) ==
    IF r.kind = "vert"
    THEN {CellAt(Max(Column(r.k) - 1, 0), Row(FloatFloor(r))),
          CellAt(Column(r.k), Row(FloatFloor(r)))}
    ELSE {CellAt(Column(FloatFloor(r)), Max(Row(r.k) - 1, 0)),
          CellAt(Column(FloatFloor(r)), Row(r.k))}

(* The cells on the two sides of the line, each clamped to the grid *)
CellsBesideLine(r) ==
    IF r.kind = "vert"
    THEN {CellAt(Column(r.k - 1), Row(FloatFloor(r))),
          CellAt(Column(r.k), Row(FloatFloor(r)))}
    ELSE {CellAt(Column(FloatFloor(r)), Row(r.k - 1)),
          CellAt(Column(FloatFloor(r)), Row(r.k))}

(* C13 as stated: for every root of curve i on vertical grid line k, with  *)
(* j the floor of the root in grid units, k' = clamp(k, 0, gW-1) and       *)
(* j' = clamp(j, 0, gH-1), the builder adds i to exactly the cells         *)
(* (max(k'-1, 0), j') and (k', j'), and symmetrically for horizontal grid  *)
(* lines: the cells holding i are those cells of all its roots.            *)
C13_Original ==
    Constructed =>
        \A i \in CurveIndices :
            GridRootsOf(i) # {} =>
                CellsWith(i) = UNION {CellsClaimed(r) : r \in GridRootsOf(i)}

(* C13, amended: for every root of curve i on vertical grid line k, with j *)
(* the floor of the root in grid units, the builder adds i to exactly the  *)
(* cells (clamp(k-1, 0, gW-1), j') and (clamp(k, 0, gW-1), j') where       *)
(* j' = clamp(j, 0, gH-1), and symmetrically for horizontal grid lines; on *)
(* the last line k = gW both are the cell (gW-1, j').                      *)
C13_CellsBesideLine ==
    Constructed =>
        \A i \in CurveIndices :
            GridRootsOf(i) # {} =>
                CellsWith(i) = UNION {CellsBesideLine(r) : r \in GridRootsOf(i)}

(* A curve has a root on the last vertical line of a grid of two or more   *)
(* columns, it is in the last column there and not in the column before    *)
C13_Witness ==
    /\ Constructed
    /\ args.gridWidth >= 2
    /\ \E i \in CurveIndices :
         \E r \in GridRootsOf(i) :
             /\ r.kind = "vert" /\ r.k = args.gridWidth
             /\ CellAt(args.gridWidth - 1, Row(FloatFloor(r))) \in CellsWith(i)
             /\ CellAt(args.gridWidth - 2, Row(FloatFloor(r))) \notin CellsWith(i)

----------------------------------------------------------------------------
(* The distinct crossings of the mid line of row y, in grid units *)
Crossings(y) ==
    intersections(MidRoots(args.beziers, args.glyphSize, args.gridWidth,
                           args.gridHeight, y, rounding))

(* The nearest integer of a crossing, halves upward (crossings are >= 0) *)
RoundOf(c) ==
    LET h == PlusHalf(c.x)
    IN  IF IsInt(h) /\ c.lean = -1 THEN FloorOf(h) - 1 ELSE FloorOf(h)

(* The place (from 1) of crossing c in the row sorted from left to right;  *)
(* crossings with the same nearest integer are interchangeable             *)
PlaceOf(c, S) ==
    1 + Cardinality({d \in S : \/ RoundOf(d) < RoundOf(c)
                               \/ RoundOf(d) = RoundOf(c) /\ Before(d, c)})

(* Cell k of row y lies between an odd crossing and the next one *)
BetweenPair(k, y) ==
    LET S == Crossings(y)
    IN  \E c, d \in S :
            /\ PlaceOf(c, S) % 2 = 1
            /\ PlaceOf(d, S) = PlaceOf(c, S) + 1
            /\ clamp(RoundOf(c), 0, args.gridWidth) <= k
            /\ k < clamp(RoundOf(d), 0, args.gridWidth)

(* C14: in every row the cells marked mid-inside are exactly the cells k   *)
(* with round(x_{2i-1}) <= k < round(x_{2i}), both clamped to [0, gW], for *)
(* the distinct crossings x1 < x2 < ... of the row; for the rectangle on   *)
(* the 10 by 10 grid row 5 has cells 1..8 true and cells 0 and 9 false.    *)
C14_MidInsideMarking ==
    Constructed =>
        /\ \A y \in 0..(args.gridHeight - 1) :
             \A k \in 0..(args.gridWidth - 1) :
                 gridGlyph.cellMids[CellAt(k, y)] <=> BetweenPair(k, y)
        /\ args = Rectangle =>
             \A k \in 0..9 : gridGlyph.cellMids[CellAt(k, 5)] <=> k \in 1..8

(* The rectangle's grid was built: row 5 has two crossings and the cells   *)
(* between them are marked                                                 *)
C14_Witness ==
    /\ Constructed
    /\ args = Rectangle
    /\ Cardinality(Crossings(5)) = 2
    /\ gridGlyph.cellMids[CellAt(1, 5)]
    /\ gridGlyph.cellMids[CellAt(8, 5)]
    /\ ~gridGlyph.cellMids[CellAt(9, 5)]

----------------------------------------------------------------------------
(* The even-odd rule for the midpoint of cell (k, y), which is the point   *)
(* ((2k+1) W / (2 gW), (2y+1) H / (2 gH)), on an outline of straight       *)
(* edges.  Everything is compared after multiplying by the denominators.   *)

(* The curves are straight edges, each starting where the one before ends, *)
(* the first where the last ends                                           *)
ClosedOutline ==
    /\ Len(args.beziers) >= 3
    /\ \A n \in DOMAIN args.beziers :
           /\ args.beziers[n].c = args.beziers[n].e0
           /\ args.beziers[n].e1
                  = args.beziers[(n % Len(args.beziers)) + 1].e0

MidX(k) == <<(2 * k + 1) * args.glyphSize[1], 2 * args.gridWidth>>

MidY(y) == <<(2 * y + 1) * args.glyphSize[2], 2 * args.gridHeight>>

(* The edge from a to e crosses the ray from the midpoint to the right:    *)
(* one end is above the ray and the other is not, and the edge is at the   *)
(* height of the ray to the right of the midpoint                          *)
EdgeCrossesRay(a, e, k, y) ==
    LET px == MidX(k)
        py == MidY(y)
        dy == e[2] - a[2]
        n == a[1] * dy * py[2] + (py[1] - a[2] * py[2]) * (e[1] - a[1])
        d == dy * py[2]
    IN  /\ (a[2] * py[2] > py[1]) # (e[2] * py[2] > py[1])
        /\ IF d > 0 THEN n * px[2] > px[1] * d ELSE n * px[2] < px[1] * d

(* The midpoint is on the edge from a to e *)
MidpointOnEdge(a, e, k, y) ==
    LET px == MidX(k)
        py == MidY(y)
    IN  /\ (e[1] - a[1]) * (py[1] - a[2] * py[2]) * px[2]
              = (e[2] - a[2]) * (px[1] - a[1] * px[2]) * py[2]
        /\ Min(a[1], e[1]) * px[2] <= px[1]
        /\ px[1] <= Max(a[1], e[1]) * px[2]
        /\ Min(a[2], e[2]) * py[2] <= py[1]
        /\ py[1] <= Max(a[2], e[2]) * py[2]

MidpointOnOutline(k, y) ==
    \E n \in DOMAIN args.beziers :
        MidpointOnEdge(args.beziers[n].e0, args.beziers[n].e1, k, y)

MidpointInside(k, y) ==
    Cardinality({n \in DOMAIN args.beziers :
                    EdgeCrossesRay(args.beziers[n].e0, args.beziers[n].e1,
                                   k, y)}) % 2 = 1

(* C15: for a closed outline every row has an even number of distinct      *)
(* crossings, also when its mid line passes through a vertex where two     *)
(* edges report the same root, and a cell is marked mid-inside exactly     *)
(* when its midpoint is inside the outline by the even-odd rule (midpoints *)
(* on the outline itself are left out).                                    *)
C15_ParityPreserved ==
    Constructed /\ ClosedOutline =>
        \A y \in 0..(args.gridHeight - 1) :
            /\ Cardinality(Crossings(y)) % 2 = 0
            /\ \A k \in 0..(args.gridWidth - 1) :
                   ~MidpointOnOutline(k, y) =>
                       (gridGlyph.cellMids[CellAt(k, y)]
                            <=> MidpointInside(k, y))

----------------------------------------------------------------------------
(* The calls of IntersectHorz and IntersectVert the constructor makes: one *)
(* for every curve and every vertical grid line, horizontal grid line and  *)
(* mid line                                                                *)
Lines ==
    {<<"vert", k>> : k \in 0..args.gridWidth}
        \cup {<<"horz", k>> : k \in 0..args.gridHeight}
        \cup {<<"mid", k>> : k \in 0..(args.gridHeight - 1)}

Returned(i, line) ==
    RootsOn(Curve(i), args.glyphSize, args.gridWidth, args.gridHeight,
            line[1], line[2])

(* The coordinate of the curve the line cuts, at e0, c and e1, and the     *)
(* position of the line as a fraction                                      *)
Along(i, line) ==
    LET n == IF line[1] = "vert" THEN 1 ELSE 2
    IN  <<Curve(i).e0[n], Curve(i).c[n], Curve(i).e1[n]>>

PositionOf(line) ==
    CASE line[1] = "vert" -> LineAt(2 * line[2], args.glyphSize[1],
                                    args.gridWidth)
      [] line[1] = "horz" -> LineAt(2 * line[2], args.glyphSize[2],
                                    args.gridHeight)
      [] OTHER -> LineAt(2 * line[2] + 1, args.glyphSize[2],
                         args.gridHeight)

(* y(t) = (A - 2B + C) t^2 - 2 (A - B) t + A is a true quadratic *)
Quadratic(i, line) ==
    LET y == Along(i, line) IN y[1] - 2 * y[2] + y[3] # 0

(* y(t) - Y has a double zero at a parameter t in [0, 1]: the curve        *)
(* touches the line there and does not cross it                            *)
TangentTo(i, line) ==
    LET y == Along(i, line)
        Y == PositionOf(line)
        a == y[1] - 2 * y[2] + y[3]
        t == (y[1] - y[2]) * (IF a < 0 THEN -1 ELSE 1)
    IN  /\ a # 0
        /\ Y[1] * a + Y[2] * (sq(y[2]) - y[1] * y[3]) = 0
        /\ 0 <= t /\ t <= Abs(a)

----------------------------------------------------------------------------
(* The end-to-end scenarios: the grid built and written for a given glyph  *)

Written == pc = "written"

ColumnOf(cell) == cell % args.gridWidth

(* C19 as stated: for the single vertical line on the 4 by 4 grid every    *)
(* cell of column 0 holds curve 0 and nothing else, all other cells are    *)
(* empty, no cell is mid-inside, and the bytes written are (2,0,0,0) for   *)
(* the cells of column 0 and (0,0,0,0) for the others.                     *)
C19_Original ==
    Written /\ args = VerticalLine =>
        \A cell \in Cells :
            /\ gridGlyph.cellBeziers[cell]
                   = IF ColumnOf(cell) = 0 THEN {0} ELSE {}
            /\ ~gridGlyph.cellMids[cell]
            /\ vgrid[cell] = IF ColumnOf(cell) = 0 THEN <<2, 0, 0, 0>>
                              ELSE <<0, 0, 0, 0>>

(* C19, amended: the same cells and flags, and the bytes written for the   *)
(* cells of column 0 are (0,2,0,0): the only curve of a cell that is not   *)
(* mid-inside is stored in the second byte.                                *)
C19_VerticalLine ==
    Written /\ args = VerticalLine =>
        \A cell \in Cells :
            /\ gridGlyph.cellBeziers[cell]
                   = IF ColumnOf(cell) = 0 THEN {0} ELSE {}
            /\ ~gridGlyph.cellMids[cell]
            /\ vgrid[cell] = IF ColumnOf(cell) = 0 THEN <<0, 2, 0, 0>>
                              ELSE <<0, 0, 0, 0>>

(* The vertical line's grid was written, 16 texels *)
C19_Witness ==
    /\ Written
    /\ args = VerticalLine
    /\ DOMAIN vgrid = 0..15
    /\ vgrid[CellAt(0, 3)] = <<0, 2, 0, 0>>
    /\ vgrid[CellAt(3, 0)] = <<0, 0, 0, 0>>

(* C20 as stated: for the triangle on the 2 by 2 grid cell (0,0) is        *)
(* mid-inside with the curves {0,1,2}, written with b0 > b1, and cell      *)
(* (1,1) is not mid-inside, has no curves and is written (0,0,0,0).        *)
C20_Original ==
    Written /\ args = Triangle =>
        /\ gridGlyph.cellMids[CellAt(0, 0)]
        /\ gridGlyph.cellBeziers[CellAt(0, 0)] = {0, 1, 2}
        /\ vgrid[CellAt(0, 0)][1] > vgrid[CellAt(0, 0)][2]
        /\ ~gridGlyph.cellMids[CellAt(1, 1)]
        /\ gridGlyph.cellBeziers[CellAt(1, 1)] = {}
        /\ vgrid[CellAt(1, 1)] = <<0, 0, 0, 0>>

(* C20, amended: cell (0,0) is mid-inside and holds the curves 0 and 2,    *)
(* written with b0 > b1; cell (1,1) is not mid-inside and holds no curve   *)
(* but possibly curve 1.  Curve 1 passes through the corner (50,50) the    *)
(* two cells share and is in at least one of them, in which depending on   *)
(* the side of 50 its computed crossings of x = 50 and y = 50 fall on; it  *)
(* is in cell (1,1), written (0,3,0,0), when they are computed as 50.      *)
C20_Triangle ==
    Written /\ args = Triangle =>
        LET low == gridGlyph.cellBeziers[CellAt(0, 0)]
            high == gridGlyph.cellBeziers[CellAt(1, 1)]
        IN  /\ gridGlyph.cellMids[CellAt(0, 0)]
            /\ {0, 2} \subseteq low /\ low \subseteq {0, 1, 2}
            /\ vgrid[CellAt(0, 0)] = IF 1 \in low THEN <<3, 2, 4, 0>>
                                      ELSE <<4, 2, 0, 0>>
            /\ ~gridGlyph.cellMids[CellAt(1, 1)]
            /\ high \subseteq {1}
            /\ vgrid[CellAt(1, 1)] = IF 1 \in high THEN <<0, 3, 0, 0>>
                                      ELSE <<0, 0, 0, 0>>
            /\ 1 \in low \cup high
            /\ (\A kind \in DOMAIN rounding : rounding[kind] = 0) =>
                   low = {0, 2} /\ high = {1}

(* The triangle's grid was written with curve 1 in both cells at the       *)
(* corner (50,50)                                                          *)
C20_Witness ==
    /\ Written
    /\ args = Triangle
    /\ gridGlyph.cellBeziers[CellAt(0, 0)] = {0, 1, 2}
    /\ gridGlyph.cellBeziers[CellAt(1, 1)] = {1}
    /\ vgrid[CellAt(0, 0)] = <<3, 2, 4, 0>>
    /\ vgrid[CellAt(1, 1)] = <<0, 3, 0, 0>>

----------------------------------------------------------------------------
(* Claims about the outline decomposer, checked under SpecOutline          *)

OutlineReturned == pc = "outline-returned"

(* C17: in the list GetBeziersForOutline returns every curve made from a   *)
(* straight edge has c equal to e0, whatever the orientation of the        *)
(* outline, so also after the curves of a fill-left outline were flipped.  *)
C17_StraightEdgesDegenerate ==
    OutlineReturned =>
        \A i \in lineEdges : curves[i + 1].c = curves[i + 1].e0

----------------------------------------------------------------------------
(* Claims about cubic2quad, checked under SpecC2Q                          *)

C2QDone == pc = "c2q-done"

(* C18: cubic2quad returns a count n with 1 <= n <= 24 and the doubles     *)
(* written are exactly out[0 .. 6n-1]; nothing is ever written past the    *)
(* 144 doubles of the buffer; there are at most 2 inflections and 3        *)
(* sub-cubics of at most 8 quadratics each; and the segment loop makes at  *)
(* most 8 iterations for a sub-cubic.                                      *)
C18_CountAndWrites ==
    /\ out \subseteq 0..(MAX_DOUBLES_OUT - 1)
    /\ numInflections <= MAX_INFLECTIONS
    /\ inflectionIdx <= numInflections
    /\ nq <= MAX_SEGMENTS * (IF C2QDone THEN inflectionIdx + 1
                             ELSE inflectionIdx)
    /\ iterations <= MAX_SEGMENTS
    /\ C2QDone =>
           /\ 1 <= c2qReturn /\ c2qReturn <= MAX_QUADS_OUT
           /\ out = 0..(6 * c2qReturn - 1)

(* A cubic with two inflections whose three sub-cubics each ran the loop   *)
(* to its end: 24 quadratics fill the buffer                               *)
C18_Witness ==
    /\ C2QDone
    /\ numInflections = 2
    /\ iterations = MAX_SEGMENTS
    /\ c2qReturn = 24
    /\ out = 0..143

----------------------------------------------------------------------------
(* Claims about the upload protocol, checked under Spec                    *)

(* The cursors, the full flag and the two buffers of a group *)
BuffersAndCursors(grp) ==
    <<grp.glyphDataBuf, grp.gridAtlas, grp.glyphDataBufOffset,
      grp.nextGridPos, grp.full>>

(* The step wrote into a buffer of group g, a group made in the step       *)
(* included                                                                *)
WrittenInStep(g) ==
    IF g \in DOMAIN atlases
    THEN \/ atlases'[g].glyphDataBuf # atlases[g].glyphDataBuf
         \/ atlases'[g].gridAtlas # atlases[g].gridAtlas
    ELSE \/ atlases'[g].glyphDataBuf # <<>>
         \/ atlases'[g].gridAtlas # <<>>

(* The step set the uploaded flag of the existing group g *)
UploadedInStep(g) ==
    g \in DOMAIN atlases /\ ~atlases[g].uploaded /\ atlases'[g].uploaded

UploadStep ==
    /\ \A g \in DOMAIN atlases' :
           /\ WrittenInStep(g) => ~atlases'[g].uploaded
           /\ UploadedInStep(g) => last'.op = "UploadAtlases"
    /\ last'.op = "UploadAtlases" =>
           /\ DOMAIN atlases' = DOMAIN atlases
           /\ \A g \in DOMAIN atlases :
                  /\ atlases'[g].uploaded
                  /\ BuffersAndCursors(atlases'[g])
                         = BuffersAndCursors(atlases[g])

(* C23: in every step of a running manager, a group whose glyph-data       *)
(* buffer or grid atlas the step wrote has uploaded = false afterwards and *)
(* only UploadAtlases sets the flag of a group; UploadAtlases sets         *)
(* uploaded = true for every group and changes no buffer, cursor or full   *)
(* flag.  So a group written since its last upload has uploaded = false.   *)
(* A step that ends in abort() or a crash leaves no manager to upload.     *)
C23_UploadProtocol == [][~halted' => UploadStep]_vars

(* Group 0 holds glyph data and has just been uploaded *)
C23_Witness ==
    /\ last.op = "UploadAtlases"
    /\ Len(atlases) >= 1
    /\ Len(atlases[1].glyphDataBuf) >= 1
    /\ atlases[1].uploaded

----------------------------------------------------------------------------
(* Claims about the one-byte curve indices, checked under Spec             *)

(* The records write_glyph_data_to_buffer has put into the groups *)
RecordsWritten ==
    UNION {{atlases[g].glyphDataBuf[n] : n \in DOMAIN atlases[g].glyphDataBuf} :
              g \in DOMAIN atlases}

(* The last curve index of a written glyph; the VGrid builder puts every   *)
(* curve index into at least one cell (C12)                                *)
TopIndex(r) == r.nbeziers - 1

(* C22: for every glyph GetGlyphForCodepoint has written into a group,     *)
(* every curve index i of it satisfies i + 2 <= 255, and a cell holding    *)
(* the index is written with a byte that decodes (byte - 2) to it.         *)
C22_CastNeverOverflows ==
    \A r \in RecordsWritten :
        /\ TopIndex(r) + kBezierIndexFirstReal <= 255
        /\ RecoveredIndices(WriteVGridCellAt({TopIndex(r)}, FALSE,
                                             kAtlasChannels))
               = {TopIndex(r)}


(* _cubic_to_quad has just returned to cubic_to_quad *)
SubCubicReturned ==
    /\ subReturn # 0
    /\ \/ C2QDone
       \/ pc = "c2q-loop" /\ segmentsCount = 1 /\ iterations = 0

(* The candidates _is_approximation_close found close *)
Accepted == {k \in DOMAIN closeCalls : closeCalls[k]}

(* The segment counts whose candidate went through the closeness test *)
TestedUpTo(k) == (1..k) \ (IF concaveAt1 THEN {1} ELSE {})

(* C26: when _cubic_to_quad returns, the one-segment candidate was not     *)
(* given to the closeness test if the concavity check failed; the count    *)
(* returned is the smallest k in 1..8 whose candidate passed the closeness *)
(* test, every smaller k having been tested and rejected (or skipped, for  *)
(* k = 1); if no k in 1..8 passed, the count is 8 and the output holds the *)
(* 8-segment candidate.                                                    *)
C26_SmallestAccepted ==
    SubCubicReturned =>
        /\ concaveAt1 => 1 \notin DOMAIN closeCalls
        /\ approximation = subReturn
        /\ IF Accepted # {}
           THEN /\ Accepted = {subReturn}
                /\ DOMAIN closeCalls = TestedUpTo(subReturn)
           ELSE /\ subReturn = MAX_SEGMENTS
                /\ DOMAIN closeCalls = TestedUpTo(MAX_SEGMENTS)

(* The one-segment candidate failed the concavity check and was skipped,   *)
(* two segments were not close, three were                                 *)
C26_Witness ==
    /\ C2QDone
    /\ concaveAt1
    /\ subReturn = 3
    /\ closeCalls = (2 :> FALSE) @@ (3 :> TRUE)

----------------------------------------------------------------------------
(* Claims about the closeness test, checked under SpecClose                *)

SegmentCloseReturned == pc = "close-returned"

(* C27: is_segment_approximation_close tests the 9 interior points         *)
(* tmin + i dt, i = 1..9, of a sub-segment: it returns false if any of     *)
(* them is farther than the error bound from the quadratic, and it has     *)
(* tested all 9 when it returns true.                                      *)
C27_NineInteriorPoints ==
    SegmentCloseReturned =>
        /\ segmentClose = "false" <=> far # {}
        /\ segmentClose = "true" => sampled = 1..9

----------------------------------------------------------------------------
(* Claims about the cubic callbacks, checked under SpecCubic               *)

(* max(1, round(0.05 * (bbW + bbH) / 2)): (bbW + bbH) / 40 rounded to      *)
(* nearest                                                                 *)
RoundedResolution(bbW, bbH) == Max(1, (bbW + bbH + 20) \div 40)

(* C25: the error bound handed to cubic2quad for a glyph is                *)
(* max(1, round(0.05 * (bbW + bbH) / 2)) of the outline's bounding box, on *)
(* the path GetGlyphForCodepoint uses (GetCurvesForOutline).               *)
C25_ErrorBound ==
    (pc = "cubic-converted" /\ caller = "GetCurvesForOutline") =>
        errorBound = RoundedResolution(cbox[1], cbox[2])

----------------------------------------------------------------------------
(* Claims about write_bezier_to_buffer, checked under SpecWriter           *)

(* round(v * 65535 / dim) clamped to [0, 65535], for dim > 0 *)
RoundedAndClamped(v, dim) ==
    IF v <= 0 THEN 0
    ELSE clamp((2 * v * UINT16_MAX + dim) \div (2 * dim), 0, UINT16_MAX)

(* C24: each coordinate v of a curve is written to the buffer as           *)
(* round(v * 65535 / dim) clamped to [0, 65535], dim being the glyph width *)
(* for x and the glyph height for y, also when the scaled value has a      *)
(* fraction of 0.5 or more and when v is outside [0, dim].                 *)
C24_RoundedAndClamped ==
    pc = "bezier-written" =>
        buffer = <<RoundedAndClamped(bezierIn.e0[1], sizeIn[1]),
                   RoundedAndClamped(bezierIn.e0[2], sizeIn[2]),
                   RoundedAndClamped(bezierIn.c[1], sizeIn[1]),
                   RoundedAndClamped(bezierIn.c[2], sizeIn[2]),
                   RoundedAndClamped(bezierIn.e1[1], sizeIn[1]),
                   RoundedAndClamped(bezierIn.e1[2], sizeIn[2])>>

----------------------------------------------------------------------------
(* Claims about the text label, checked under SpecLabel                    *)

(* C21: after any sequence of InsertText, RemoveText, SetText and          *)
(* AppendText calls with any index and length, glyphs has as many entries  *)
(* as text and verts six times as many; and after SetText(t), GetText()    *)
(* returns t.                                                              *)
C21_ArraysInStep ==
    /\ Len(labelGlyphs) = Len(text)
    /\ Len(verts) = 6 * Len(text)
    /\ labelLast.op = "SetText" => GetText = labelLast.text


(* The atlas group recorded in a Glyph *)
GroupOfGlyph(glyph) == glyph[1].bezierAtlasPos[2]

(* C28: when Render has drawn the label, every glyph stored in an atlas    *)
(* group was drawn with the grid atlas and glyph-data buffer of the group  *)
(* recorded in the glyph, also a glyph of a group other than group 0.      *)
C28_DrawnWithOwnGroup ==
    labelLast.op = "Render" =>
        \A i \in DOMAIN drawn :
            (/\ i \in DOMAIN labelGlyphs
             /\ labelGlyphs[i] # nullptr
             /\ GroupOfGlyph(labelGlyphs[i]) >= 0)
                => drawn[i] = GroupOfGlyph(labelGlyphs[i])

(* C29: in every state reached by SetCaretPosition, InsertText, RemoveText *)
(* and SetText calls caretPosition <= text.size(), and Render with the     *)
(* caret shown reads verts and glyphs inside the arrays only.              *)
C29_CaretInText ==
    /\ caretPosition <= Len(text)
    /\ labelLast.op = "Render" => labelFaults = {}

(* The step is a call of RemoveText *)
RemoveTextStep == labelLast'.op = "RemoveText" /\ nops' = nops + 1

(* C30: a call RemoveText(index, length) makes no access outside text,     *)
(* glyphs or verts, whatever index and length are (length = 0 and a        *)
(* wrapping index + length included), and it leaves the label unchanged    *)
(* when index >= text.size() or length = 0.                                *)
C30_RemoveTextInBounds ==
    [][RemoveTextStep =>
         /\ labelFaults' = {}
         /\ (labelLast'.index >= Len(text) \/ labelLast'.length = 0) =>
                <<text', labelGlyphs', verts'>> = <<text, labelGlyphs, verts>>
      ]_vars

====
